---- MODULE Spec2Model ----
(***************************************************************************)
(* Model of the careers-ai matching core: the O*NET ingestion pipeline     *)
(* (ingestion/build_career_profiles.py), the component matchers and the    *)
(* aggregator (matching/), and the ranking driver                          *)
(* (scripts/rank_all_careers.py).                                          *)
(*                                                                         *)
(* Python floats are modelled as exact rationals <<n, d>> in lowest terms  *)
(* with d > 0.  A Python call either returns a value or raises; a result   *)
(* is [ok |-> TRUE, val |-> v] or [ok |-> FALSE, err |-> "<exception>"].   *)
(***************************************************************************)
EXTENDS Integers, Sequences, FiniteSets, TLC

\* ------------------------------------------------------------------------
\* Bounds of the model
\* ------------------------------------------------------------------------
MaxRaw == 10
MinRaw == -3
MaxRows == 2
MaxSocs == 2
MaxAnswers == 2
GridSteps == 3

\* ------------------------------------------------------------------------
\* float arithmetic, as exact rationals
\* ------------------------------------------------------------------------
RECURSIVE GCD(_, _)
GCD(a, b) == IF b = 0 THEN a ELSE GCD(b, a % b)

IAbs(x) == IF x < 0 THEN -x ELSE x

Rat(n, d) ==
    LET g == GCD(IAbs(n), IAbs(d))
        s == IF d < 0 THEN -1 ELSE 1
    IN  <<(s * n) \div g, (s * d) \div g>>

Zero == <<0, 1>>
One == <<1, 1>>
FromInt(i) == <<i, 1>>

\* sums are taken over the least common denominator, to stay within 32 bits
RAdd(a, b) ==
    Rat(a[1] * (b[2] \div GCD(a[2], b[2])) + b[1] * (a[2] \div GCD(a[2], b[2])),
        (a[2] \div GCD(a[2], b[2])) * b[2])
RSub(a, b) == RAdd(a, <<-b[1], b[2]>>)
RMul(a, b) == Rat(a[1] * b[1], a[2] * b[2])
RDiv(a, b) == Rat(a[1] * b[2], a[2] * b[1])
RNeg(a) == <<-a[1], a[2]>>
RLt(a, b) == a[1] * b[2] < b[1] * a[2]
RLe(a, b) == a[1] * b[2] <= b[1] * a[2]
RMin(a, b) == IF RLe(a, b) THEN a ELSE b
RMax(a, b) == IF RLe(a, b) THEN b ELSE a
RAbs(a) == <<IAbs(a[1]), a[2]>>

\* sum(s[lo..hi]), halving the range to keep the evaluation shallow
RECURSIVE RSumRange(_, _, _)
RSumRange(s, lo, hi) ==
    IF lo > hi THEN Zero
    ELSE IF lo = hi THEN s[lo]
    ELSE LET mid == (lo + hi) \div 2
         IN  RAdd(RSumRange(s, lo, mid), RSumRange(s, mid + 1, hi))

RSum(s) == RSumRange(s, 1, Len(s))

\* sum(xs) / len(xs)
RMean(s) == RDiv(RSum(s), FromInt(Len(s)))

\* ------------------------------------------------------------------------
\* results of calls
\* ------------------------------------------------------------------------
Ok(v) == [ok |-> TRUE, val |-> v]
Raise(e) == [ok |-> FALSE, err |-> e]

\* ------------------------------------------------------------------------
\* a CSV field read by csv.DictReader: parsable numeric text, other text
\* (the empty string included), or None when the row is short
\* ------------------------------------------------------------------------
Num(i) == [kind |-> "num", v |-> FromInt(i)]
Text == [kind |-> "text"]
None == [kind |-> "none"]

\* float(value): ValueError on unparsable text, TypeError on None
float(value) ==
    CASE value.kind = "num" -> Ok(value.v)
      [] value.kind = "text" -> Raise("ValueError")
      [] OTHER -> Raise("TypeError")

\* ingestion.utils.clamp: clamp a score into [0, 1]
clamp(x) == RMax(Zero, RMin(One, x))

\* ------------------------------------------------------------------------
\* Scale Normalizer
\* ------------------------------------------------------------------------
Scales == {"LV", "IM", "IH", "OI", "WI", "DR", "VH", "EX"}

normalise_ImportanceFromZero(value, scale) ==
    LET f == float(value) IN
    IF ~f.ok THEN f
    ELSE CASE scale = "LV" -> Ok(RDiv(f.val, FromInt(7)))
           [] scale = "IM" -> Ok(RDiv(f.val, FromInt(5)))
           [] scale = "IH" -> Ok(RDiv(f.val, FromInt(6)))
           [] scale = "OI" -> Ok(RDiv(RSub(f.val, One), FromInt(6)))
           [] scale = "WI" -> Ok(RDiv(f.val, FromInt(3)))
           [] scale = "DR" -> Ok(RDiv(f.val, FromInt(10)))
           [] scale = "VH" -> Ok(RDiv(RSub(f.val, One), FromInt(5)))
           [] scale = "EX" -> Ok(RDiv(RSub(f.val, One), FromInt(6)))
           [] OTHER -> Raise("ValueError")

normalise(value, scale) ==
    LET f == float(value) IN
    IF ~f.ok THEN f
    ELSE CASE scale = "LV" -> Ok(RDiv(f.val, FromInt(7)))
           [] scale = "IM" -> Ok(RDiv(RSub(f.val, One), FromInt(4)))
           [] scale = "IH" -> Ok(RDiv(f.val, FromInt(6)))
           [] scale = "OI" -> Ok(RDiv(RSub(f.val, One), FromInt(6)))
           [] scale = "WI" -> Ok(RDiv(f.val, FromInt(3)))
           [] scale = "DR" -> Ok(RDiv(f.val, FromInt(10)))
           [] scale = "VH" -> Ok(RDiv(RSub(f.val, One), FromInt(5)))
           [] scale = "EX" -> Ok(RDiv(RSub(f.val, One), FromInt(6)))
           [] OTHER -> Raise("ValueError")

\* ------------------------------------------------------------------------
\* dicts: functions with a finite domain of keys
\* ------------------------------------------------------------------------
EmptyDict == <<>>
Put(f, k, v) == [x \in (DOMAIN f) \cup {k} |-> IF x = k THEN v ELSE f[x]]
Get(f, k, default) == IF k \in DOMAIN f THEN f[k] ELSE default

SeqToSet(s) == {s[i] : i \in 1..Len(s)}

\* ------------------------------------------------------------------------
\* core/career_components.py: components with a fixed set of dimensions.
\* An instance has a scores dict; the class object itself has none.
\* ------------------------------------------------------------------------
TRAIT_TYPES == <<"analytical", "creative", "social", "leadership",
                 "detail_oriented", "adaptability">>
INTEREST_TYPES == <<"technology", "science", "business", "arts",
                    "social_impact", "hands_on">>
APTITUDE_TYPES == <<"numerical_reasoning", "verbal_reasoning",
                    "spatial_reasoning", "logical_reasoning", "memory">>
VALUE_TYPES == <<"stability", "financial_security", "prestige", "autonomy",
                 "helping_others", "work_life_balance">>
WORK_STYLE_TYPES == <<"team_based", "structure", "pace", "ambiguity_tolerance">>

\* __init__(self, scores=None) of the five component classes
ComponentInit(types, scores) ==
    IF \E k \in DOMAIN scores : k \notin SeqToSet(types)
    THEN Raise("ValueError")
    ELSE Ok([inst |-> TRUE,
             scores |-> [d \in SeqToSet(types) |->
                            IF d \in DOMAIN scores THEN clamp(scores[d])
                            ELSE Zero]])

Traits(scores) == ComponentInit(TRAIT_TYPES, scores)
Interests(scores) == ComponentInit(INTEREST_TYPES, scores)
Aptitudes(scores) == ComponentInit(APTITUDE_TYPES, scores)
Values(scores) == ComponentInit(VALUE_TYPES, scores)
WorkStyles(scores) == ComponentInit(WORK_STYLE_TYPES, scores)

set_Unchecked(self, name, value) ==
    Ok([self EXCEPT !.scores = Put(self.scores, name, clamp(value))])

\* set(self, <dimension>, value) of the five component classes
set(self, name, value) ==
    IF name \notin DOMAIN self.scores THEN Raise("ValueError")
    ELSE Ok([self EXCEPT !.scores[name] = clamp(value)])

\* the class WorkStyles, not an instance of it
WorkStylesClass == [inst |-> FALSE]

\* ------------------------------------------------------------------------
\* data/onet/mappings.py: element name -> (internal dimension, weight)
\* ------------------------------------------------------------------------
W10 == <<1, 1>>
W09 == <<9, 10>>
W08 == <<4, 5>>
W07 == <<7, 10>>
W06 == <<3, 5>>
W05 == <<1, 2>>

ABILITY_MAP ==
    [e \in {"Deductive Reasoning", "Inductive Reasoning", "Number Facility",
            "Mathematical Reasoning", "Verbal Reasoning",
            "Written Comprehension", "Oral Comprehension",
            "Spatial Orientation", "Visualization", "Memorization"} |->
        CASE e = "Deductive Reasoning" -> <<"logical_reasoning", W10>>
          [] e = "Inductive Reasoning" -> <<"logical_reasoning", W10>>
          [] e = "Number Facility" -> <<"numerical_reasoning", W10>>
          [] e = "Mathematical Reasoning" -> <<"numerical_reasoning", W09>>
          [] e = "Verbal Reasoning" -> <<"verbal_reasoning", W10>>
          [] e = "Written Comprehension" -> <<"verbal_reasoning", W08>>
          [] e = "Oral Comprehension" -> <<"verbal_reasoning", W08>>
          [] e = "Spatial Orientation" -> <<"spatial_reasoning", W10>>
          [] e = "Visualization" -> <<"spatial_reasoning", W09>>
          [] OTHER -> <<"memory", W10>>]

INTEREST_MAP ==
    [e \in {"Realistic", "Investigative", "Artistic", "Social",
            "Enterprising"} |->
        CASE e = "Realistic" -> <<"hands_on", W10>>
          [] e = "Investigative" -> <<"science", W10>>
          [] e = "Artistic" -> <<"arts", W10>>
          [] e = "Social" -> <<"social_impact", W10>>
          [] OTHER -> <<"business", W10>>]

WORK_STYLE_MAP ==
    [e \in {"Intellectual Curiosity", "Innovation", "Optimism",
            "Attention to Detail", "Cautiousness", "Dependability",
            "Cooperation", "Empathy", "Social Orientation", "Sincerity",
            "Humility", "Leadership Orientation", "Initiative",
            "Achievement Orientation", "Self-Confidence", "Adaptability",
            "Tolerance for Ambiguity", "Stress Tolerance"} |->
        CASE e = "Intellectual Curiosity" -> <<"analytical", W10>>
          [] e = "Innovation" -> <<"creative", W10>>
          [] e = "Optimism" -> <<"creative", W05>>
          [] e = "Attention to Detail" -> <<"detail_oriented", W10>>
          [] e = "Cautiousness" -> <<"detail_oriented", W07>>
          [] e = "Dependability" -> <<"detail_oriented", W06>>
          [] e = "Cooperation" -> <<"social", W10>>
          [] e = "Empathy" -> <<"social", W09>>
          [] e = "Social Orientation" -> <<"social", W10>>
          [] e = "Sincerity" -> <<"social", W06>>
          [] e = "Humility" -> <<"social", W05>>
          [] e = "Leadership Orientation" -> <<"leadership", W10>>
          [] e = "Initiative" -> <<"leadership", W08>>
          [] e = "Achievement Orientation" -> <<"leadership", W07>>
          [] e = "Self-Confidence" -> <<"leadership", W06>>
          [] e = "Adaptability" -> <<"adaptability", W10>>
          [] e = "Tolerance for Ambiguity" -> <<"adaptability", W10>>
          [] OTHER -> <<"adaptability", W08>>]

WORK_ACTIVITY_MAP ==
    [e \in {"Analyzing Data or Information", "Thinking Creatively",
            "Interacting With Computers",
            "Communicating with Supervisors, Peers, or Subordinates",
            "Guiding, Directing, and Motivating Subordinates"} |->
        CASE e = "Analyzing Data or Information" -> <<"analytical", W10>>
          [] e = "Thinking Creatively" -> <<"creative", W10>>
          [] e = "Interacting With Computers" -> <<"technical_interaction", W10>>
          [] e = "Communicating with Supervisors, Peers, or Subordinates"
               -> <<"communication", W10>>
          [] OTHER -> <<"leadership", W10>>]

\* the work-values table: one magnitude element per value dimension
WORK_VALUE_MAP ==
    [e \in {"Achievement", "Working Conditions", "Recognition",
            "Relationships", "Support", "Independence"} |->
        CASE e = "Achievement" -> <<"financial_security", W10>>
          [] e = "Working Conditions" -> <<"work_life_balance", W10>>
          [] e = "Recognition" -> <<"prestige", W10>>
          [] e = "Relationships" -> <<"helping_others", W10>>
          [] e = "Support" -> <<"stability", W10>>
          [] OTHER -> <<"autonomy", W10>>]

VH_VALUE_MAP ==
    [c \in 1..6 |->
        CASE c = 1 -> "Achievement"
          [] c = 2 -> "Working Conditions"
          [] c = 3 -> "Recognition"
          [] c = 4 -> "Relationships"
          [] c = 5 -> "Support"
          [] OTHER -> "Independence"]

\* ------------------------------------------------------------------------
\* ingestion/build_career_profiles.py: the category builders.
\* A reference row is [soc, element, scale, value]; a file is a sequence
\* of rows.  A builder returns Ok(dict soc -> component) or raises.
\* ------------------------------------------------------------------------
Row(soc, element, scale, value) ==
    [soc |-> soc, element |-> element, scale |-> scale, value |-> value]

EmptyScales == [LV |-> <<>>, IM |-> <<>>]

\* loop body of the two-scale readers (abilities, work activities)
TwoScaleStep(data, row, MAP) ==
    IF row.element \notin DOMAIN MAP THEN Ok(data)
    ELSE LET value == normalise(row.value, row.scale) IN
         IF ~value.ok
         THEN IF value.err = "ValueError" THEN Ok(data) ELSE value
         ELSE IF row.scale \notin DOMAIN EmptyScales THEN Raise("KeyError")
         ELSE LET internal_name == MAP[row.element][1]
                  weight == MAP[row.element][2]
                  by_soc == Get(data, row.soc, EmptyDict)
                  scales == Get(by_soc, internal_name, EmptyScales)
                  appended == [scales EXCEPT
                                 ![row.scale] = Append(@, RMul(value.val, weight))]
              IN  Ok(Put(data, row.soc, Put(by_soc, internal_name, appended)))

RECURSIVE TwoScaleRead(_, _, _, _)
TwoScaleRead(rows, i, data, MAP) ==
    IF i > Len(rows) THEN Ok(data)
    ELSE LET r == TwoScaleStep(data, rows[i], MAP) IN
         IF ~r.ok THEN r ELSE TwoScaleRead(rows, i + 1, r.val, MAP)

\* the blend with the two scale weights exchanged
TwoScaleAggregate_BlendSwapped(vals, wl, wi) ==
    [result \in DOMAIN vals |->
        LET scales == vals[result]
            lv == IF scales.LV # <<>> THEN RMean(scales.LV) ELSE Zero
            im == IF scales.IM # <<>> THEN RMean(scales.IM) ELSE Zero
        IN  RAdd(RMul(lv, wi), RMul(im, wl))]

\* lv * wl + im * wi over the per-scale means of one (soc, dimension)
TwoScaleAggregate(vals, wl, wi) ==
    [result \in DOMAIN vals |->
        LET scales == vals[result]
            lv == IF scales.LV # <<>> THEN RMean(scales.LV) ELSE Zero
            im == IF scales.IM # <<>> THEN RMean(scales.IM) ELSE Zero
        IN  RAdd(RMul(lv, wl), RMul(im, wi))]

\* one component per occupation code; a raising constructor aborts the build
ComponentsBySoc(aggregated, types) ==
    IF \E soc \in DOMAIN aggregated : ~ComponentInit(types, aggregated[soc]).ok
    THEN Raise("ValueError")
    ELSE Ok([soc \in DOMAIN aggregated |->
                ComponentInit(types, aggregated[soc]).val])

AptitudesAggregated(data) ==
    [soc \in DOMAIN data |-> TwoScaleAggregate(data[soc], <<3, 5>>, <<2, 5>>)]

build_aptitudes_from_abilities(rows) ==
    LET data == TwoScaleRead(rows, 1, EmptyDict, ABILITY_MAP) IN
    IF ~data.ok THEN data
    ELSE ComponentsBySoc(AptitudesAggregated(data.val), APTITUDE_TYPES)

WorkActivitiesAggregated(data) ==
    [soc \in DOMAIN data |-> TwoScaleAggregate(data[soc], <<2, 5>>, <<3, 5>>)]

build_traits_from_work_activities(rows) ==
    LET data == TwoScaleRead(rows, 1, EmptyDict, WORK_ACTIVITY_MAP) IN
    IF ~data.ok THEN data
    ELSE ComponentsBySoc(WorkActivitiesAggregated(data.val), TRAIT_TYPES)

\* loop body of the one-scale readers (interests: OI, work styles: WI)
OneScaleStep(data, row, MAP, scale) ==
    IF row.element \notin DOMAIN MAP \/ row.scale # scale THEN Ok(data)
    ELSE LET value == normalise(row.value, row.scale) IN
         IF ~value.ok
         THEN IF value.err = "ValueError" THEN Ok(data) ELSE value
         ELSE LET internal_name == MAP[row.element][1]
                  weight == MAP[row.element][2]
                  by_soc == Get(data, row.soc, EmptyDict)
                  scores == Get(by_soc, internal_name, <<>>)
              IN  Ok(Put(data, row.soc,
                         Put(by_soc, internal_name,
                             Append(scores, RMul(value.val, weight)))))

RECURSIVE OneScaleRead(_, _, _, _, _)
OneScaleRead(rows, i, data, MAP, scale) ==
    IF i > Len(rows) THEN Ok(data)
    ELSE LET r == OneScaleStep(data, rows[i], MAP, scale) IN
         IF ~r.ok THEN r ELSE OneScaleRead(rows, i + 1, r.val, MAP, scale)

\* {dimension: sum(scores) / len(scores)} per occupation code
OneScaleAggregated(data) ==
    [soc \in DOMAIN data |->
        [dimension \in DOMAIN data[soc] |-> RMean(data[soc][dimension])]]

build_interests(rows) ==
    LET data == OneScaleRead(rows, 1, EmptyDict, INTEREST_MAP, "OI") IN
    IF ~data.ok THEN data
    ELSE ComponentsBySoc(OneScaleAggregated(data.val), INTEREST_TYPES)

build_traits_from_work_styles(rows) ==
    LET data == OneScaleRead(rows, 1, EmptyDict, WORK_STYLE_MAP, "WI") IN
    IF ~data.ok THEN data
    ELSE ComponentsBySoc(OneScaleAggregated(data.val), TRAIT_TYPES)

\* int(x) for a float x: truncation toward zero
int(x) == IF x[1] < 0 THEN -((-x[1]) \div x[2]) ELSE x[1] \div x[2]

\* loop body of the work-values reader; the state is the pair of dicts
\* [ex |-> ex_scores_by_soc, vh |-> vh_hits_by_soc]
ValuesStep(st, row) ==
    IF row.scale = "EX"
    THEN IF row.element \notin DOMAIN WORK_VALUE_MAP THEN Ok(st)
         ELSE LET ex_value == normalise(row.value, "EX") IN
              IF ~ex_value.ok
              THEN IF ex_value.err = "ValueError" THEN Ok(st) ELSE ex_value
              ELSE LET value_name == WORK_VALUE_MAP[row.element][1]
                       weight == WORK_VALUE_MAP[row.element][2]
                       by_soc == Get(st.ex, row.soc, EmptyDict)
                   IN  Ok([st EXCEPT !.ex =
                              Put(st.ex, row.soc,
                                  Put(by_soc, value_name,
                                      RMul(ex_value.val, weight)))])
    ELSE IF row.scale = "VH"
    THEN LET f == float(row.value) IN
         IF ~f.ok
         THEN IF f.err = "ValueError" THEN Ok(st) ELSE f
         ELSE LET vh_code == int(f.val) IN
              IF vh_code = 0 \/ vh_code \notin DOMAIN VH_VALUE_MAP THEN Ok(st)
              ELSE LET value_element == VH_VALUE_MAP[vh_code] IN
                   IF value_element \notin DOMAIN WORK_VALUE_MAP THEN Ok(st)
                   ELSE LET value_name == WORK_VALUE_MAP[value_element][1] IN
                        Ok([st EXCEPT !.vh =
                               Put(st.vh, row.soc,
                                   Get(st.vh, row.soc, {}) \cup {value_name})])
    ELSE Ok(st)

RECURSIVE ValuesRead(_, _, _)
ValuesRead(rows, i, st) ==
    IF i > Len(rows) THEN Ok(st)
    ELSE LET r == ValuesStep(st, rows[i]) IN
         IF ~r.ok THEN r ELSE ValuesRead(rows, i + 1, r.val)

ValuesAggregated_NoFilter(st) ==
    [soc_code \in DOMAIN st.ex |->
        [value_name \in DOMAIN st.ex[soc_code] |-> st.ex[soc_code][value_name]]]

\* "Combine EX and VH": the top-3 filter
ValuesAggregated(st) ==
    [soc_code \in DOMAIN st.ex |->
        LET has_vh == Get(st.vh, soc_code, {}) # {} IN
        [value_name \in DOMAIN st.ex[soc_code] |->
            IF has_vh
            THEN IF value_name \in st.vh[soc_code]
                 THEN st.ex[soc_code][value_name] ELSE Zero
            ELSE st.ex[soc_code][value_name]]]

build_values_from_work_values(rows) ==
    LET st == ValuesRead(rows, 1, [ex |-> EmptyDict, vh |-> EmptyDict]) IN
    IF ~st.ok THEN st
    ELSE ComponentsBySoc(ValuesAggregated(st.val), VALUE_TYPES)

\* ------------------------------------------------------------------------
\* merge of the two Traits sources, derived WorkStyles, the catalogue
\* ------------------------------------------------------------------------
\* the Traits objects found for one occupation code, work styles first
TraitSources(ws_traits_by_soc, wa_traits_by_soc, soc_code) ==
    (IF soc_code \in DOMAIN ws_traits_by_soc
     THEN <<ws_traits_by_soc[soc_code]>> ELSE <<>>)
    \o (IF soc_code \in DOMAIN wa_traits_by_soc
        THEN <<wa_traits_by_soc[soc_code]>> ELSE <<>>)

\* trait_sums[trait] / trait_counts[trait] over every key of every source
AveragedScores(sources) ==
    LET names == UNION {DOMAIN sources[i].scores : i \in 1..Len(sources)}
        having(trait) == SelectSeq(sources, LAMBDA t : trait \in DOMAIN t.scores)
        values(trait) == [i \in 1..Len(having(trait)) |->
                             having(trait)[i].scores[trait]]
    IN  [trait \in names |-> RMean(values(trait))]

merge_traits(ws_traits_by_soc, wa_traits_by_soc) ==
    LET all_socs == (DOMAIN ws_traits_by_soc) \cup (DOMAIN wa_traits_by_soc)
        averaged == [soc_code \in all_socs |->
                        AveragedScores(TraitSources(ws_traits_by_soc,
                                                    wa_traits_by_soc, soc_code))]
    IN  ComponentsBySoc(averaged, TRAIT_TYPES)

\* WorkStyles(*args): __init__(self, scores=None) takes at most one argument
WorkStylesCall(args) ==
    IF Len(args) > 1 THEN Raise("TypeError")
    ELSE WorkStyles(IF Len(args) = 0 THEN EmptyDict ELSE args[1])

DerivedScores(t) ==
    LET creative == Get(t, "creative", Zero)
        social == Get(t, "social", Zero)
        leadership == Get(t, "leadership", Zero)
        detail_oriented == Get(t, "detail_oriented", Zero)
        adaptability == Get(t, "adaptability", Zero)
    IN  [team_based |-> RAdd(social, leadership),
         structure |-> RSub(detail_oriented, adaptability),
         pace |-> RAdd(leadership, adaptability),
         ambiguity_tolerance |->
             RSub(RAdd(adaptability, creative), detail_oriented)]

derive_work_styles(traits_by_soc) ==
    LET made == [soc_code \in DOMAIN traits_by_soc |->
                    WorkStylesCall(<<DerivedScores(traits_by_soc[soc_code].scores),
                                     FALSE>>)]
    IN  IF \E soc_code \in DOMAIN made : ~made[soc_code].ok
        THEN Raise((made[CHOOSE soc_code \in DOMAIN made :
                             ~made[soc_code].ok]).err)
        ELSE Ok([soc_code \in DOMAIN made |-> made[soc_code].val])

\* models/career_profile.py: the frozen record of one occupation
CareerProfile(soc_code, aptitudes, interests, traits, values, work_styles) ==
    [soc_code |-> soc_code, aptitudes |-> aptitudes, interests |-> interests,
     traits |-> traits, values |-> values, work_styles |-> work_styles]

\* keys of a dict filled from a list, in insertion order (first occurrence)
KeyOrder(codes) ==
    SelectSeq([i \in 1..Len(codes) |-> <<i, codes[i]>>],
              LAMBDA p : \A j \in 1..(p[1] - 1) : codes[j] # p[2])

\* the reference files: one sequence of rows per category
FileNames == {"abilities", "interests", "work_styles", "work_activities",
              "work_values"}

CodesOf(pairs) == [i \in 1..Len(pairs) |-> pairs[i][2]]

\* line 403: tr = merge_traits(tr_ws, tr_wa), unless a source raised
MergeBuilt(tr_ws, tr_wa) ==
    IF ~tr_ws.ok THEN tr_ws
    ELSE IF ~tr_wa.ok THEN tr_wa
    ELSE merge_traits(tr_ws.val, tr_wa.val)

\* lines 401-403: both Traits sources are built, then merged
MergedTraits(files) ==
    MergeBuilt(build_traits_from_work_styles(files.work_styles),
               build_traits_from_work_activities(files.work_activities))

\* lines 406-415: one CareerProfile per listed code, in an insertion-ordered
\* dict [order, prof]; a code without data gets the defaults
SocProfiles(soc_codes, apts, ints, tr, vals, ws) ==
    IF ~ws.ok THEN ws
    ELSE Ok([order |-> CodesOf(KeyOrder(soc_codes)),
             prof |-> [soc_code \in SeqToSet(soc_codes) |->
                CareerProfile(soc_code,
                    Get(apts.val, soc_code, Aptitudes(EmptyDict).val),
                    Get(ints.val, soc_code, Interests(EmptyDict).val),
                    Get(tr.val, soc_code, Traits(EmptyDict).val),
                    Get(vals.val, soc_code, Values(EmptyDict).val),
                    Get(ws.val, soc_code, WorkStylesClass))]])

\* lines 398-404: the builders run in order; the first exception propagates
ProfilesFrom(soc_codes, apts, ints, vals, tr) ==
    IF ~apts.ok THEN apts
    ELSE IF ~ints.ok THEN ints
    ELSE IF ~vals.ok THEN vals
    ELSE IF ~tr.ok THEN tr
    ELSE SocProfiles(soc_codes, apts, ints, tr, vals, derive_work_styles(tr.val))

build_all_career_profiles(files, soc_codes) ==
    ProfilesFrom(soc_codes,
                 build_aptitudes_from_abilities(files.abilities),
                 build_interests(files.interests),
                 build_values_from_work_values(files.work_values),
                 MergedTraits(files))

\* ------------------------------------------------------------------------
\* matching/: the five component matchers
\* ------------------------------------------------------------------------
\* sum of term(k) over the keys of a finite set
RECURSIVE SumOver(_, _)
SumOver(keys, f) ==
    IF keys = {} THEN Zero
    ELSE LET k == CHOOSE x \in keys : TRUE
         IN  RAdd(f[k], SumOver(keys \ {k}, f))

\* reading .scores of an object that is not an instance raises
HasScores(user, role) == user.inst /\ role.inst

\* the capacity fit computed as the interest matcher computes its score
match_aptitudes_Product(user_aptitudes, role_aptitudes) ==
    IF ~HasScores(user_aptitudes, role_aptitudes) THEN Raise("AttributeError")
    ELSE LET r == role_aptitudes.scores
             u == user_aptitudes.scores
         IN  Ok(SumOver(DOMAIN r,
                        [name \in DOMAIN r |-> RMul(Get(u, name, Zero), r[name])]))

match_aptitudes(user_aptitudes, role_aptitudes) ==
    IF ~HasScores(user_aptitudes, role_aptitudes) THEN Raise("AttributeError")
    ELSE LET r == role_aptitudes.scores
             u == user_aptitudes.scores
         IN  Ok(SumOver(DOMAIN r,
                        [name \in DOMAIN r |-> RMin(Get(u, name, Zero), r[name])]))

match_interests(user_interests, role_interests) ==
    IF ~HasScores(user_interests, role_interests) THEN Raise("AttributeError")
    ELSE LET r == role_interests.scores
             u == user_interests.scores
         IN  Ok(SumOver(DOMAIN r,
                        [name \in DOMAIN r |-> RMul(Get(u, name, Zero), r[name])]))

\* only a person value below the occupation value is penalised
match_traits_ShortfallOnly(user_traits, role_traits) ==
    IF ~HasScores(user_traits, role_traits) THEN Raise("AttributeError")
    ELSE LET r == role_traits.scores
             u == user_traits.scores
         IN  Ok(RNeg(SumOver(DOMAIN r,
                        [name \in DOMAIN r |->
                            RMax(RSub(r[name], Get(u, name, Zero)), Zero)])))

match_traits(user_traits, role_traits) ==
    IF ~HasScores(user_traits, role_traits) THEN Raise("AttributeError")
    ELSE LET r == role_traits.scores
             u == user_traits.scores
         IN  Ok(RNeg(SumOver(DOMAIN r,
                        [name \in DOMAIN r |->
                            RAbs(RSub(Get(u, name, Zero), r[name]))])))

match_values(user_values, role_values) ==
    IF ~HasScores(user_values, role_values) THEN Raise("AttributeError")
    ELSE LET r == role_values.scores
             u == user_values.scores
         IN  Ok(SumOver(DOMAIN r,
                        [name \in DOMAIN r |->
                            IF RLe(r[name], Zero) THEN Zero
                            ELSE RMul(Get(u, name, Zero), r[name])]))

match_work_styles(user_ws, role_ws) ==
    IF ~HasScores(user_ws, role_ws) THEN Raise("AttributeError")
    ELSE LET r == role_ws.scores
             u == user_ws.scores
         IN  Ok(RNeg(SumOver(DOMAIN r,
                        [name \in DOMAIN r |->
                            RAbs(RSub(Get(u, name, Zero), r[name]))])))

\* ------------------------------------------------------------------------
\* matching/aggregate.py
\* ------------------------------------------------------------------------
COMPONENT_WEIGHTS ==
    [aptitudes |-> <<1, 1>>, interests |-> <<6, 5>>, traits |-> <<1, 1>>,
     values |-> <<4, 5>>, work_styles |-> <<11, 10>>]

METADATA_KEYS == {"profile_peakiness", "career_specificity", "peak_alignment"}

FLAT_PROFILE_THRESHOLD == <<3, 10>>
PEAK_ALIGNMENT_BONUS == <<3, 20>>

WeightedComponents_NoBlend(scores, blend) ==
    [component \in (DOMAIN scores) \ METADATA_KEYS |->
        RMul(Get(COMPONENT_WEIGHTS, component, One), scores[component])]

\* the weighted contributions of the components, before capping
WeightedComponents(scores, blend) ==
    [component \in (DOMAIN scores) \ METADATA_KEYS |->
        LET normal_weight == Get(COMPONENT_WEIGHTS, component, One)
            weight == RAdd(One, RMul(blend, RSub(normal_weight, One)))
        IN  RMul(weight, scores[component])]

Capped_Unsigned(weighted_components, profile_peakiness) ==
    LET flatness == RSub(One, RDiv(profile_peakiness, FLAT_PROFILE_THRESHOLD))
        comps == DOMAIN weighted_components
        mean_abs == RDiv(SumOver(comps, [c \in comps |->
                                            RAbs(weighted_components[c])]),
                         FromInt(Cardinality(comps)))
    IN  [comp \in comps |->
            LET val == weighted_components[comp] IN
            IF RLt(mean_abs, RAbs(val))
            THEN LET sign == IF RLe(Zero, val) THEN One ELSE RNeg(One)
                     capped_val == mean_abs
                 IN  RAdd(val, RMul(flatness, RSub(capped_val, val)))
            ELSE val]

\* flat profiles: outliers are blended towards the mean magnitude
Capped(weighted_components, profile_peakiness) ==
    LET flatness == RSub(One, RDiv(profile_peakiness, FLAT_PROFILE_THRESHOLD))
        comps == DOMAIN weighted_components
        mean_abs == RDiv(SumOver(comps, [c \in comps |->
                                            RAbs(weighted_components[c])]),
                         FromInt(Cardinality(comps)))
    IN  [comp \in comps |->
            LET val == weighted_components[comp] IN
            IF RLt(mean_abs, RAbs(val))
            THEN LET sign == IF RLe(Zero, val) THEN One ELSE RNeg(One)
                     capped_val == RMul(mean_abs, sign)
                 IN  RAdd(val, RMul(flatness, RSub(capped_val, val)))
            ELSE val]

aggregate_match_BonusIfPeaked(scores) ==
    LET profile_peakiness == Get(scores, "profile_peakiness", Zero)
        career_specificity == Get(scores, "career_specificity", Zero)
        peak_alignment == Get(scores, "peak_alignment", Zero)
        flat == RLt(profile_peakiness, FLAT_PROFILE_THRESHOLD)
        blend == IF flat THEN RDiv(profile_peakiness, FLAT_PROFILE_THRESHOLD)
                 ELSE One
        weighted == WeightedComponents(scores, blend)
        weighted_components ==
            IF flat /\ DOMAIN weighted # {}
            THEN Capped(weighted, profile_peakiness) ELSE weighted
        total == SumOver(DOMAIN weighted_components, weighted_components)
    IN  IF ~flat
        THEN LET alignment_bonus ==
                     RMul(RDiv(peak_alignment, FromInt(3)), PEAK_ALIGNMENT_BONUS)
             IN  RMul(total, RAdd(One, alignment_bonus))
        ELSE total

aggregate_match(scores) ==
    LET profile_peakiness == Get(scores, "profile_peakiness", Zero)
        career_specificity == Get(scores, "career_specificity", Zero)
        peak_alignment == Get(scores, "peak_alignment", Zero)
        flat == RLt(profile_peakiness, FLAT_PROFILE_THRESHOLD)
        blend == IF flat THEN RDiv(profile_peakiness, FLAT_PROFILE_THRESHOLD)
                 ELSE One
        weighted == WeightedComponents(scores, blend)
        weighted_components ==
            IF flat /\ DOMAIN weighted # {}
            THEN Capped(weighted, profile_peakiness) ELSE weighted
        total == SumOver(DOMAIN weighted_components, weighted_components)
    IN  IF ~flat /\ RLe(FLAT_PROFILE_THRESHOLD, career_specificity)
        THEN LET alignment_bonus ==
                     RMul(RDiv(peak_alignment, FromInt(3)), PEAK_ALIGNMENT_BONUS)
             IN  RMul(total, RAdd(One, alignment_bonus))
        ELSE total

\* ------------------------------------------------------------------------
\* matching/engine.py
\* ------------------------------------------------------------------------
SqrtScale == 100

\* largest k in lo..hi with k * k <= x
RECURSIVE IsqrtBetween(_, _, _)
IsqrtBetween(lo, hi, x) ==
    IF lo >= hi THEN lo
    ELSE LET mid == (lo + hi + 1) \div 2 IN
         IF mid * mid <= x THEN IsqrtBetween(mid, hi, x)
         ELSE IsqrtBetween(lo, mid - 1, x)

Isqrt(x) == IsqrtBetween(0, IF x < 46340 THEN x ELSE 46340, x)

\* floor(n * SqrtScale / d) and the remainder, without forming n * SqrtScale
ScaledQuot(n, d) == (n \div d) * SqrtScale + ((n % d) * SqrtScale) \div d
ScaledRem(n, d) == ((n % d) * SqrtScale) % d

\* math.sqrt: exact on squares of rationals, else rounded down to 1/SqrtScale
sqrt(q) ==
    LET rn == Isqrt(q[1])
        rd == Isqrt(q[2])
    IN  IF rn * rn = q[1] /\ rd * rd = q[2] THEN Rat(rn, rd)
        ELSE Rat(Isqrt(ScaledQuot(q[1], q[2]) * SqrtScale
                       + (ScaledRem(q[1], q[2]) * SqrtScale) \div q[2]),
                 SqrtScale)

\* statistics.stdev: the sample standard deviation
stdev(values) ==
    LET n == Len(values)
        mean == RMean(values)
        ss == RSum([i \in 1..n |->
                       RMul(RSub(values[i], mean), RSub(values[i], mean))])
    IN  sqrt(RDiv(ss, FromInt(n - 1)))

compute_peakiness(values) ==
    IF Len(values) < 2 THEN Zero
    ELSE RMin(RDiv(stdev(values), <<1, 2>>), One)

ComponentNames == <<"aptitudes", "interests", "traits", "values", "work_styles">>

\* insertion order of the keys of each component's scores dict
DimensionOrder ==
    [aptitudes |-> APTITUDE_TYPES, interests |-> INTEREST_TYPES,
     traits |-> TRAIT_TYPES, values |-> VALUE_TYPES,
     work_styles |-> WORK_STYLE_TYPES]

\* the items of one component, as <<<<component, dim>>, value>> pairs
ComponentItems(profile, component_name) ==
    LET dims == DimensionOrder[component_name]
        sc == profile[component_name].scores
    IN  [i \in 1..Len(dims) |-> <<<<component_name, dims[i]>>, sc[dims[i]]>>]

\* the flat dict of all dimension scores, in insertion order
get_all_scores(profile) ==
    ComponentItems(profile, "aptitudes") \o ComponentItems(profile, "interests")
    \o ComponentItems(profile, "traits") \o ComponentItems(profile, "values")
    \o ComponentItems(profile, "work_styles")

PlaceDescending_Unstable(items, i) ==
    1 + Cardinality({j \in 1..Len(items) : RLt(items[i][2], items[j][2])})
      + Cardinality({j \in (i + 1)..Len(items) : items[j][2] = items[i][2]})

\* sorted(items, key=lambda x: x[1], reverse=True): the place of items[i]
\* in the stable descending order
PlaceDescending(items, i) ==
    1 + Cardinality({j \in 1..Len(items) : RLt(items[i][2], items[j][2])})
      + Cardinality({j \in 1..(i - 1) : items[j][2] = items[i][2]})

sorted_reverse(items) ==
    LET place == [i \in 1..Len(items) |-> PlaceDescending(items, i)]
    IN  [p \in 1..Len(items) |->
            items[CHOOSE i \in 1..Len(items) : place[i] = p]]

top_n_dimensions(scores, n) ==
    LET sorted_dims == sorted_reverse(scores)
    IN  {sorted_dims[i][1] : i \in 1..(IF Len(sorted_dims) < n
                                       THEN Len(sorted_dims) ELSE n)}

ItemValues(items) == [i \in 1..Len(items) |-> items[i][2]]

match_user_to_role(user, role) ==
    LET psych == user.psychometrics
        a == match_aptitudes(psych.aptitudes, role.aptitudes)
        i == match_interests(psych.interests, role.interests)
        t == match_traits(psych.traits, role.traits)
        v == match_values(psych.values, role.values)
        w == match_work_styles(psych.work_styles, role.work_styles)
    IN  IF ~a.ok THEN a
        ELSE IF ~i.ok THEN i
        ELSE IF ~t.ok THEN t
        ELSE IF ~v.ok THEN v
        ELSE IF ~w.ok THEN w
        ELSE LET profile_scores == get_all_scores(psych)
                 career_scores == get_all_scores(role)
                 component_scores ==
                     [aptitudes |-> a.val, interests |-> i.val, traits |-> t.val,
                      values |-> v.val, work_styles |-> w.val,
                      profile_peakiness |->
                          compute_peakiness(ItemValues(profile_scores)),
                      career_specificity |->
                          compute_peakiness(ItemValues(career_scores)),
                      peak_alignment |->
                          FromInt(Cardinality(top_n_dimensions(profile_scores, 3)
                                      \cap top_n_dimensions(career_scores, 3)))]
             IN  Ok(Put(component_scores, "total",
                        aggregate_match(component_scores)))

\* ------------------------------------------------------------------------
\* scripts/rank_all_careers.py: the ranking driver
\* ------------------------------------------------------------------------
\* core/user_profile.py
UserProfile(psychometrics) == [psychometrics |-> psychometrics]

RankItem_WrongKey(soc_code, scores) == <<soc_code, scores["aptitudes"]>>

\* line 18: rank_list[soc_code] = scores['total']
RankItem(soc_code, scores) == <<soc_code, scores["total"]>>

\* lines 20-23: the ranking sorted by total, returned with the breakdowns
RankScored(order, scored) ==
    IF \E k \in 1..Len(order) : ~scored[order[k]].ok
    THEN Raise((scored[order[CHOOSE k \in 1..Len(order) :
                          ~scored[order[k]].ok]]).err)
    ELSE LET results == [soc_code \in SeqToSet(order) |-> scored[soc_code].val]
             rank_list == [k \in 1..Len(order) |->
                              RankItem(order[k], results[order[k]])]
         IN  Ok([results |-> results, rank_list |-> sorted_reverse(rank_list)])

\* lines 12-23: score every catalogued occupation, then sort by total
RankCatalogue(user, career_profiles) ==
    RankScored(career_profiles.order,
               [soc_code \in SeqToSet(career_profiles.order) |->
                   match_user_to_role(user, career_profiles.prof[soc_code])])

\* lines 10-23: the catalogue is ranked unless building it raised
RankBuilt(user, career_profiles) ==
    IF ~career_profiles.ok THEN career_profiles
    ELSE RankCatalogue(user, career_profiles.val)

rank_profiles(user_profile, files, soc_codes) ==
    RankBuilt(UserProfile(user_profile),
              build_all_career_profiles(files, soc_codes))

\* ------------------------------------------------------------------------
\* State: the reference files and the SOC code list on disk, the catalogue
\* and person profile held by a ranking request, and the last call made
\* with what it returned or raised.
\* ------------------------------------------------------------------------
VARIABLES files, soc_codes, career_profiles, user_profile, call, ret

vars == <<files, soc_codes, career_profiles, user_profile, call, ret>>

NoFiles == [f \in FileNames |-> <<>>]
EmptyCatalogue == [order |-> <<>>, prof |-> EmptyDict]
NoCall == [op |-> "none"]
NoResult == [ok |-> FALSE, err |-> "none"]

\* core/profile.py: the answer types add_answer accepts
QuestionTypes == {"trait", "interest", "aptitude", "value", "work_style"}

\* core/profile.py: PsychometricProfile(aptitudes, interests, traits, values,
\* work_styles); totals[q] and counts[q] are the _<q>_totals and _<q>_counts
\* dicts, empty after construction
PsychometricProfile(aptitudes, interests, traits, values, work_styles) ==
    [aptitudes |-> aptitudes, interests |-> interests, traits |-> traits,
     values |-> values, work_styles |-> work_styles,
     totals |-> [q \in QuestionTypes |-> EmptyDict],
     counts |-> [q \in QuestionTypes |-> EmptyDict],
     total_answers |-> 0,
     confidence |-> Zero]

Uniform(types, x) == [d \in SeqToSet(types) |-> x]

DefaultProfile ==
    PsychometricProfile(Aptitudes(EmptyDict).val, Interests(EmptyDict).val,
                        Traits(EmptyDict).val, Values(EmptyDict).val,
                        WorkStyles(EmptyDict).val)

\* every answer the same: a flat profile
FlatProfile(x) ==
    PsychometricProfile(Aptitudes(Uniform(APTITUDE_TYPES, x)).val,
                        Interests(Uniform(INTEREST_TYPES, x)).val,
                        Traits(Uniform(TRAIT_TYPES, x)).val,
                        Values(Uniform(VALUE_TYPES, x)).val,
                        WorkStyles(Uniform(WORK_STYLE_TYPES, x)).val)

\* a differentiated profile: strong capabilities and traits, nothing else
PeakedProfile ==
    PsychometricProfile(Aptitudes(Uniform(APTITUDE_TYPES, One)).val,
                        Interests([science |-> One]).val,
                        Traits(Uniform(TRAIT_TYPES, One)).val,
                        Values(EmptyDict).val,
                        WorkStyles(EmptyDict).val)

Half == <<1, 2>>
Users == {DefaultProfile, FlatProfile(Half), PeakedProfile}

Socs == {"s1", "s2"}

\* rows the reference files may hold
AbilityRows ==
    {Row("s1", "Number Facility", "LV", Num(7)),
     Row("s1", "Number Facility", "IM", Num(5)),
     Row("s1", "Mathematical Reasoning", "LV", Num(0)),
     Row("s2", "Memorization", "LV", Num(7)),
     Row("s1", "Number Facility", "OI", Num(3)),
     Row("s1", "Number Facility", "ZZ", Num(3)),
     Row("s1", "Number Facility", "LV", Text),
     Row("s1", "Number Facility", "LV", None),
     Row("s1", "Stamina", "LV", Num(7))}

InterestRows ==
    {Row("s1", "Realistic", "OI", Num(7)),
     Row("s1", "Realistic", "OI", Num(1)),
     Row("s1", "Social", "OI", Num(4)),
     Row("s2", "Artistic", "OI", Num(7)),
     Row("s1", "Realistic", "IH", Num(3)),
     Row("s1", "Realistic", "ZZ", Num(3)),
     Row("s1", "Realistic", "OI", Text),
     Row("s1", "Realistic", "OI", None),
     Row("s1", "Conventional", "OI", Num(5))}

WorkStyleRows ==
    {Row("s1", "Innovation", "WI", Num(3)),
     Row("s1", "Innovation", "WI", Num(-3)),
     Row("s1", "Optimism", "WI", Num(3)),
     Row("s1", "Cooperation", "WI", Num(3)),
     Row("s2", "Adaptability", "WI", Num(3)),
     Row("s1", "Innovation", "DR", Num(5)),
     Row("s1", "Innovation", "WI", Text),
     Row("s1", "Integrity", "WI", Num(2))}

WorkActivityRows ==
    {Row("s1", "Analyzing Data or Information", "IM", Num(5)),
     Row("s1", "Analyzing Data or Information", "LV", Num(7)),
     Row("s1", "Thinking Creatively", "IM", Num(5)),
     Row("s2", "Guiding, Directing, and Motivating Subordinates", "IM", Num(5)),
     Row("s1", "Interacting With Computers", "IM", Num(3)),
     Row("s1", "Analyzing Data or Information", "DR", Num(5)),
     Row("s1", "Analyzing Data or Information", "ZZ", Num(3)),
     Row("s1", "Handling and Moving Objects", "IM", Num(3))}

WorkValueRows ==
    {Row("s1", "Achievement", "EX", Num(7)),
     Row("s1", "Achievement", "EX", Num(4)),
     Row("s1", "Independence", "EX", Num(7)),
     Row("s2", "Support", "EX", Num(7)),
     Row("s1", "First Work Value High-Point", "VH", Num(1)),
     Row("s1", "Second Work Value High-Point", "VH", Num(6)),
     Row("s2", "First Work Value High-Point", "VH", Num(5)),
     Row("s1", "Third Work Value High-Point", "VH", Num(0)),
     Row("s1", "First Work Value High-Point", "VH", Text),
     Row("s1", "Achievement", "IM", Num(3)),
     Row("s1", "Altruism", "EX", Num(7))}

IngestRows ==
    [abilities |-> AbilityRows, interests |-> InterestRows,
     work_styles |-> WorkStyleRows, work_activities |-> WorkActivityRows,
     work_values |-> WorkValueRows]

\* the well-formed rows among them, one per file
CleanRows ==
    [abilities |-> {Row("s1", "Number Facility", "LV", Num(7))},
     interests |-> {Row("s1", "Realistic", "OI", Num(7))},
     work_styles |-> {Row("s1", "Innovation", "WI", Num(3))},
     work_activities |-> {Row("s1", "Analyzing Data or Information", "IM", Num(5))},
     work_values |-> {Row("s1", "Achievement", "EX", Num(7))}]

TotalRows ==
    Len(files.abilities) + Len(files.interests) + Len(files.work_styles)
    + Len(files.work_activities) + Len(files.work_values)

Init ==
    /\ files = NoFiles
    /\ soc_codes = <<>>
    /\ career_profiles = EmptyCatalogue
    /\ user_profile = DefaultProfile
    /\ call = NoCall
    /\ ret = NoResult

\* the reference data gains a row
WriteRow(f, row) ==
    /\ call.op = "none"
    /\ TotalRows < MaxRows
    /\ files' = [files EXCEPT ![f] = Append(@, row)]
    /\ UNCHANGED <<soc_codes, career_profiles, user_profile, call, ret>>

\* the SOC code list gains a line
WriteSocCode(soc_code) ==
    /\ call.op = "none"
    /\ Len(soc_codes) < MaxSocs
    /\ soc_codes' = Append(soc_codes, soc_code)
    /\ UNCHANGED <<files, career_profiles, user_profile, call, ret>>

Returns(op, result) ==
    /\ call.op = "none"
    /\ call' = [op |-> op]
    /\ ret' = result

CallBuildAllCareerProfiles ==
    /\ Returns("build_all_career_profiles",
               build_all_career_profiles(files, soc_codes))
    /\ career_profiles' = IF ret'.ok THEN ret'.val ELSE career_profiles
    /\ UNCHANGED <<files, soc_codes, user_profile>>

CallRankProfiles(psych) ==
    /\ Returns("rank_profiles", rank_profiles(psych, files, soc_codes))
    /\ user_profile' = psych
    /\ UNCHANGED <<files, soc_codes, career_profiles>>

Next ==
    \/ \E f \in FileNames : \E row \in CleanRows[f] : WriteRow(f, row)
    \/ \E soc_code \in Socs : WriteSocCode(soc_code)
    \/ CallBuildAllCareerProfiles
    \/ \E psych \in Users : CallRankProfiles(psych)

Spec == Init /\ [][Next]_vars

\* ------------------------------------------------------------------------
\* The ingestion functions called one at a time on richer reference files
\* ------------------------------------------------------------------------
CallBuilder(op, result) ==
    /\ Returns(op, result)
    /\ UNCHANGED <<files, soc_codes, career_profiles, user_profile>>

CallBuildAptitudes ==
    CallBuilder("build_aptitudes_from_abilities",
                build_aptitudes_from_abilities(files.abilities))

CallBuildInterests ==
    CallBuilder("build_interests", build_interests(files.interests))

CallBuildTraitsFromWorkStyles ==
    CallBuilder("build_traits_from_work_styles",
                build_traits_from_work_styles(files.work_styles))

CallBuildTraitsFromWorkActivities ==
    CallBuilder("build_traits_from_work_activities",
                build_traits_from_work_activities(files.work_activities))

CallBuildValues ==
    CallBuilder("build_values_from_work_values",
                build_values_from_work_values(files.work_values))

CallMergeTraits == CallBuilder("merge_traits", MergedTraits(files))

\* line 404: ws = derive_work_styles(tr), unless building tr raised
DeriveBuilt(tr) == IF ~tr.ok THEN tr ELSE derive_work_styles(tr.val)

CallDeriveWorkStyles ==
    CallBuilder("derive_work_styles", DeriveBuilt(MergedTraits(files)))

NextIngest ==
    \/ \E f \in FileNames : \E row \in IngestRows[f] : WriteRow(f, row)
    \/ CallBuildAptitudes
    \/ CallBuildInterests
    \/ CallBuildTraitsFromWorkStyles
    \/ CallBuildTraitsFromWorkActivities
    \/ CallBuildValues
    \/ CallMergeTraits
    \/ CallDeriveWorkStyles

SpecIngest == Init /\ [][NextIngest]_vars

\* ------------------------------------------------------------------------
\* The Scale Normalizer called on its own
\* ------------------------------------------------------------------------
RawValues == {Num(i) : i \in MinRaw..MaxRaw} \cup {Text, None}

CallNormalise(value, scale) ==
    /\ call.op = "none"
    /\ call' = [op |-> "normalise", value |-> value, scale |-> scale]
    /\ ret' = normalise(value, scale)
    /\ UNCHANGED <<files, soc_codes, career_profiles, user_profile>>

NextNormalise ==
    \E value \in RawValues : \E scale \in Scales \cup {"ZZ"} :
        CallNormalise(value, scale)

SpecNormalise == Init /\ [][NextNormalise]_vars

\* ------------------------------------------------------------------------
\* The ranking loop (rank_profiles, lines 12-23) on a catalogue in memory
\* ------------------------------------------------------------------------
Role(aptitudes, interests, traits, work_styles) ==
    [aptitudes |-> Aptitudes(aptitudes).val,
     interests |-> Interests(interests).val,
     traits |-> Traits(traits).val,
     values |-> Values(EmptyDict).val,
     work_styles |-> work_styles]

\* requirements that an all-0.5 person misses on two dimensions
DemandingTraits ==
    [analytical |-> One, creative |-> One]
        @@ Uniform(TRAIT_TYPES, Half)

DemandingWorkStyles ==
    [team_based |-> One, structure |-> One]
        @@ Uniform(WORK_STYLE_TYPES, Half)

RoleProfiles ==
    {Role(EmptyDict, EmptyDict, EmptyDict, WorkStyles(EmptyDict).val),
     Role([numerical_reasoning |-> <<9, 10>>], EmptyDict, EmptyDict,
          WorkStyles(EmptyDict).val),
     Role(Uniform(APTITUDE_TYPES, Half), EmptyDict, EmptyDict,
          WorkStyles(EmptyDict).val),
     Role(EmptyDict, [science |-> One], Uniform(TRAIT_TYPES, One),
          WorkStyles([team_based |-> One]).val),
     Role([numerical_reasoning |-> <<9, 10>>], EmptyDict, DemandingTraits,
          WorkStyles(DemandingWorkStyles).val),
     Role(Uniform(APTITUDE_TYPES, Half), EmptyDict, DemandingTraits,
          WorkStyles(DemandingWorkStyles).val),
     Role(EmptyDict, EmptyDict, EmptyDict, WorkStylesClass)}

\* sequences of distinct codes, at most MaxSocs long
RECURSIVE OrdersOfLength(_)
OrdersOfLength(n) ==
    IF n = 0 THEN {<<>>}
    ELSE {Append(o, c) : o \in OrdersOfLength(n - 1), c \in Socs}

Orders ==
    {o \in UNION {OrdersOfLength(n) : n \in 0..MaxSocs} :
        Cardinality(SeqToSet(o)) = Len(o)}

Catalogues ==
    UNION {{[order |-> o,
             prof |-> [c \in SeqToSet(o) |->
                          [soc_code |-> c] @@ p[c]]] :
              p \in [SeqToSet(o) -> RoleProfiles]} : o \in Orders}

InitRank ==
    /\ files = NoFiles
    /\ soc_codes = <<>>
    /\ career_profiles \in Catalogues
    /\ user_profile \in Users
    /\ call = NoCall
    /\ ret = NoResult

CallRankCatalogue ==
    /\ Returns("rank_catalogue",
               RankCatalogue(UserProfile(user_profile), career_profiles))
    /\ UNCHANGED <<files, soc_codes, career_profiles, user_profile>>

NextRank == CallRankCatalogue

SpecRank == InitRank /\ [][NextRank]_vars

\* ------------------------------------------------------------------------
\* inference/answer_converter.py: quiz answers to a PsychometricProfile
\* ------------------------------------------------------------------------
QUESTION_MAPPING ==
    ("A1" :> <<"aptitudes", "numerical_reasoning">>)
    @@ ("A2" :> <<"aptitudes", "verbal_reasoning">>)
    @@ ("A3" :> <<"aptitudes", "spatial_reasoning">>)
    @@ ("A4" :> <<"aptitudes", "logical_reasoning">>)
    @@ ("A5" :> <<"aptitudes", "memory">>)
    @@ ("I1" :> <<"interests", "technology">>)
    @@ ("I2" :> <<"interests", "science">>)
    @@ ("I3" :> <<"interests", "business">>)
    @@ ("I4" :> <<"interests", "arts">>)
    @@ ("I5" :> <<"interests", "social_impact">>)
    @@ ("I6" :> <<"interests", "hands_on">>)
    @@ ("T1" :> <<"traits", "analytical">>)
    @@ ("T2" :> <<"traits", "creative">>)
    @@ ("T3" :> <<"traits", "social">>)
    @@ ("T4" :> <<"traits", "leadership">>)
    @@ ("T5" :> <<"traits", "detail_oriented">>)
    @@ ("T6" :> <<"traits", "adaptability">>)
    @@ ("V1" :> <<"values", "stability">>)
    @@ ("V2" :> <<"values", "financial_security">>)
    @@ ("V3" :> <<"values", "prestige">>)
    @@ ("V4" :> <<"values", "autonomy">>)
    @@ ("V5" :> <<"values", "helping_others">>)
    @@ ("V6" :> <<"values", "work_life_balance">>)
    @@ ("W1" :> <<"work_styles", "team_based">>)
    @@ ("W2" :> <<"work_styles", "structure">>)
    @@ ("W3" :> <<"work_styles", "pace">>)
    @@ ("W4" :> <<"work_styles", "ambiguity_tolerance">>)

\* the answers dict is a sequence of <<qid, raw_value>> with distinct qids,
\* in insertion order; lines 60-64 fill buckets[component][dimension]
Bucket(answers, component) ==
    LET mapped == SelectSeq(answers, LAMBDA a :
                      /\ a[1] \in DOMAIN QUESTION_MAPPING
                      /\ QUESTION_MAPPING[a[1]][1] = component)
        raw(dimension) ==
            SelectSeq(mapped, LAMBDA a : QUESTION_MAPPING[a[1]][2] = dimension)
    IN  [dimension \in {QUESTION_MAPPING[mapped[i][1]][2] : i \in 1..Len(mapped)}
            |-> [i \in 1..Len(raw(dimension)) |-> FromInt(raw(dimension)[i][2])]]

\* the 1-5 answer mapped as LIKERT_5_MAP maps it: (mean - 1) / 4
avg_normalized_Likert(d) ==
    [k \in DOMAIN d |-> clamp(RDiv(RSub(RMean(d[k]), One), FromInt(4)))]

\* lines 66-70: {k: clamp(mean(v) / 5)}
avg_normalized(d) ==
    [k \in DOMAIN d |-> clamp(RDiv(RMean(d[k]), FromInt(5)))]

\* lines 72-78: the five components passed positionally
ProfileOf(aptitudes, interests, traits, values, work_styles) ==
    IF ~aptitudes.ok THEN aptitudes
    ELSE IF ~interests.ok THEN interests
    ELSE IF ~traits.ok THEN traits
    ELSE IF ~values.ok THEN values
    ELSE IF ~work_styles.ok THEN work_styles
    ELSE Ok(PsychometricProfile(aptitudes.val, interests.val, traits.val,
                                values.val, work_styles.val))

convert_answers_to_profile(answers) ==
    ProfileOf(Aptitudes(avg_normalized(Bucket(answers, "aptitudes"))),
              Interests(avg_normalized(Bucket(answers, "interests"))),
              Traits(avg_normalized(Bucket(answers, "traits"))),
              Values(avg_normalized(Bucket(answers, "values"))),
              WorkStyles(avg_normalized(Bucket(answers, "work_styles"))))

\* ------------------------------------------------------------------------
\* The answer converter called on drawn answer sets
\* ------------------------------------------------------------------------
\* every question of the quiz, in the order of the mapping
QuestionOrder ==
    <<"A1", "A2", "A3", "A4", "A5", "I1", "I2", "I3", "I4", "I5", "I6",
      "T1", "T2", "T3", "T4", "T5", "T6", "V1", "V2", "V3", "V4", "V5", "V6",
      "W1", "W2", "W3", "W4">>

\* question identifiers of the short answer sets; X9 is not in the mapping
ShortQids == {"A1", "A2", "I1", "T1", "V1", "W1", "X9"}

LikertAnswers == 1..5

RECURSIVE AnswersOfLength(_)
AnswersOfLength(n) ==
    IF n = 0 THEN {<<>>}
    ELSE {Append(answers, <<qid, raw_value>>) :
            answers \in AnswersOfLength(n - 1),
            qid \in ShortQids, raw_value \in LikertAnswers}

DistinctQids(answers) ==
    \A i, j \in 1..Len(answers) : i # j => answers[i][1] # answers[j][1]

\* 5 answered to every question
AllFives == [i \in 1..Len(QuestionOrder) |-> <<QuestionOrder[i], 5>>]

AnswerSets ==
    {answers \in UNION {AnswersOfLength(n) : n \in 0..MaxAnswers} :
        DistinctQids(answers)} \cup {AllFives}

CallConvertAnswers(answers) ==
    /\ call.op = "none"
    /\ call' = [op |-> "convert_answers_to_profile", answers |-> answers]
    /\ ret' = convert_answers_to_profile(answers)
    /\ UNCHANGED <<files, soc_codes, career_profiles, user_profile>>

\* ------------------------------------------------------------------------
\* core/profile.py: answers added one at a time, then finalise
\* ------------------------------------------------------------------------
\* the component a question type feeds
ComponentOf ==
    [trait |-> "traits", interest |-> "interests", aptitude |-> "aptitudes",
     value |-> "values", work_style |-> "work_styles"]

\* _validate without the checks of the target (lines 47-60)
validate_NoTargetCheck(self, answer) ==
    IF ~({"question_type", "target", "answer"} \subseteq DOMAIN answer)
    THEN Raise("ValueError")
    ELSE IF answer.question_type \notin QuestionTypes THEN Raise("ValueError")
    ELSE IF answer.answer.kind # "num" THEN Raise("ValueError")
    ELSE Ok(None)

\* lines 30-60: _validate raises ValueError or returns None
validate(self, answer) ==
    IF ~({"question_type", "target", "answer"} \subseteq DOMAIN answer)
    THEN Raise("ValueError")
    ELSE IF answer.question_type \notin QuestionTypes THEN Raise("ValueError")
    ELSE IF answer.answer.kind # "num" THEN Raise("ValueError")
    ELSE IF answer.target
              \notin DOMAIN self[ComponentOf[answer.question_type]].scores
    THEN Raise("ValueError")
    ELSE Ok(None)

\* lines 66-90: the running total and count of the target, and the number of
\* answers
Accumulated(self, answer) ==
    LET q == answer.question_type
        target == answer.target
    IN  [self EXCEPT
           !.totals[q] = Put(@, target,
                             RAdd(Get(@, target, Zero), answer.answer.v)),
           !.counts[q] = Put(@, target, Get(@, target, 0) + 1),
           !.total_answers = @ + 1]

\* lines 63-90: the profile after the call, or the exception raised
add_answer(self, answer) ==
    IF ~validate(self, answer).ok THEN validate(self, answer)
    ELSE Ok(Accumulated(self, answer))

\* lines 93-111: component.set(target, total / count) for every target
Averaged(self, q) ==
    [self[ComponentOf[q]] EXCEPT
       !.scores = [d \in DOMAIN @ |->
                      IF d \in DOMAIN self.totals[q]
                      THEN clamp(RDiv(self.totals[q][d],
                                      FromInt(self.counts[q][d])))
                      ELSE @[d]]]

\* line 113: min(self._total_answers / 20, 1.0)
Confidence(total_answers) == RMin(Rat(total_answers, 20), One)

\* lines 92-113
finalise(self) ==
    [self EXCEPT !.traits = Averaged(self, "trait"),
                 !.interests = Averaged(self, "interest"),
                 !.aptitudes = Averaged(self, "aptitude"),
                 !.values = Averaged(self, "value"),
                 !.work_styles = Averaged(self, "work_style"),
                 !.confidence = Confidence(self.total_answers)]

\* answers submitted to add_answer: well-formed ones and ones _validate rejects
SubmittedAnswers ==
    {[question_type |-> "trait", target |-> "analytical", answer |-> Num(5)],
     [question_type |-> "trait", target |-> "analytical", answer |-> Num(2)],
     [question_type |-> "aptitude", target |-> "memory", answer |-> Num(3)],
     [question_type |-> "value", target |-> "autonomy", answer |-> Num(4)],
     [question_type |-> "interest", target |-> "memory", answer |-> Num(3)],
     [question_type |-> "skill", target |-> "memory", answer |-> Num(3)],
     [question_type |-> "trait", target |-> "creative", answer |-> Text],
     [question_type |-> "trait", target |-> "creative"]}

\* the profile under construction is user_profile
CallAddAnswer(answer) ==
    /\ call.op \in {"none", "add_answer", "finalise"}
    /\ user_profile.total_answers < MaxAnswers
    /\ call' = [op |-> "add_answer", answer |-> answer]
    /\ ret' = IF add_answer(user_profile, answer).ok THEN Ok(None)
              ELSE add_answer(user_profile, answer)
    /\ user_profile' = IF add_answer(user_profile, answer).ok
                       THEN add_answer(user_profile, answer).val
                       ELSE user_profile
    /\ UNCHANGED <<files, soc_codes, career_profiles>>

CallFinalise ==
    /\ call.op \in {"none", "add_answer"}
    /\ call' = [op |-> "finalise"]
    /\ ret' = Ok(None)
    /\ user_profile' = finalise(user_profile)
    /\ UNCHANGED <<files, soc_codes, career_profiles>>

NextAnswers ==
    \/ \E answers \in AnswerSets : CallConvertAnswers(answers)
    \/ \E answer \in SubmittedAnswers : CallAddAnswer(answer)
    \/ CallFinalise

SpecAnswers == Init /\ [][NextAnswers]_vars

\* ------------------------------------------------------------------------
\* The component matchers called on drawn component pairs
\* ------------------------------------------------------------------------
\* the scores 0, 1/GridSteps, .., 1
Grid == {Rat(i, GridSteps) : i \in 0..GridSteps}

\* components whose first two dimensions take every pair of grid scores
DrawnComponents(types) ==
    {ComponentInit(types, (types[1] :> x) @@ (types[2] :> y)).val :
        x \in Grid, y \in Grid}

CallMatcher(op, user, role, result) ==
    /\ call.op = "none"
    /\ call' = [op |-> op, user |-> user, role |-> role]
    /\ ret' = result
    /\ UNCHANGED <<files, soc_codes, career_profiles, user_profile>>

CallMatchAptitudes ==
    \E user \in DrawnComponents(APTITUDE_TYPES) :
        \E role \in DrawnComponents(APTITUDE_TYPES) :
            CallMatcher("match_aptitudes", user, role, match_aptitudes(user, role))

CallMatchTraits ==
    \E user \in DrawnComponents(TRAIT_TYPES) :
        \E role \in DrawnComponents(TRAIT_TYPES) :
            CallMatcher("match_traits", user, role, match_traits(user, role))

CallMatchWorkStyles ==
    \E user \in DrawnComponents(WORK_STYLE_TYPES) :
        \E role \in DrawnComponents(WORK_STYLE_TYPES) :
            CallMatcher("match_work_styles", user, role,
                        match_work_styles(user, role))

NextMatch ==
    \/ CallMatchAptitudes
    \/ CallMatchTraits
    \/ CallMatchWorkStyles

SpecMatch == Init /\ [][NextMatch]_vars

\* ------------------------------------------------------------------------
\* aggregate_match called on drawn component-score dicts
\* ------------------------------------------------------------------------
\* component scores: a penalty, a partial fit and a dominating fit
ScoreDraws == {RNeg(One), Half, FromInt(2)}

\* peakiness readings on both sides of the flatness threshold
PeakinessDraws == {Zero, Rat(3, 20), FLAT_PROFILE_THRESHOLD, Half}

\* the metadata match_user_to_role attaches, or none at all
MetadataDraws ==
    {EmptyDict} \cup
    {[profile_peakiness |-> p, career_specificity |-> c,
      peak_alignment |-> FromInt(k)] :
        p \in PeakinessDraws, c \in PeakinessDraws \ {Rat(3, 20)}, k \in 0..3}

CallAggregateMatch ==
    \E components \in [SeqToSet(ComponentNames) -> ScoreDraws] :
        \E metadata \in MetadataDraws :
            /\ call.op = "none"
            /\ call' = [op |-> "aggregate_match",
                        scores |-> components @@ metadata]
            /\ ret' = Ok(aggregate_match(components @@ metadata))
            /\ UNCHANGED <<files, soc_codes, career_profiles, user_profile>>

NextAggregate == CallAggregateMatch

SpecAggregate == Init /\ [][NextAggregate]_vars

\* ------------------------------------------------------------------------
\* core/career_components.py: the components of a profile constructed from
\* drawn dicts and written through set
\* ------------------------------------------------------------------------
\* dimension names callers pass: valid for some component, or for none
DrawnNames ==
    {"analytical", "technology", "numerical_reasoning", "stability", "charisma"}

\* values below, inside and above the unit range
DrawnValues == {RNeg(Half), Half, Rat(3, 2)}

DrawnDicts ==
    {EmptyDict} \cup
    {(n :> v) : n \in DrawnNames, v \in {Rat(3, 2)}} \cup
    {(n :> RNeg(Half)) @@ ("charisma" :> Half) : n \in DrawnNames}

\* <Class>(scores): the profile holds the new component unless it raised
CallComponentInit ==
    \E component \in SeqToSet(ComponentNames) :
        \E scores \in DrawnDicts :
            LET made == ComponentInit(DimensionOrder[component], scores) IN
            /\ call.op = "none"
            /\ call' = [op |-> "init", component |-> component,
                        scores |-> scores]
            /\ ret' = IF made.ok THEN Ok(None) ELSE made
            /\ user_profile' =
                   IF made.ok
                   THEN [user_profile EXCEPT ![component] = made.val]
                   ELSE user_profile
            /\ UNCHANGED <<files, soc_codes, career_profiles>>

\* <component>.set(name, value)
CallSet ==
    \E component \in SeqToSet(ComponentNames) :
        \E name \in DrawnNames :
            \E value \in DrawnValues :
                LET done == set(user_profile[component], name, value) IN
                /\ call' = [op |-> "set", component |-> component,
                            name |-> name, value |-> value]
                /\ ret' = IF done.ok THEN Ok(None) ELSE done
                /\ user_profile' =
                       IF done.ok
                       THEN [user_profile EXCEPT ![component] = done.val]
                       ELSE user_profile
                /\ UNCHANGED <<files, soc_codes, career_profiles>>

NextComponents ==
    \/ CallComponentInit
    \/ CallSet

SpecComponents == Init /\ [][NextComponents]_vars

\* ------------------------------------------------------------------------
\* scripts/rank_all_careers.py: successive ranking requests of one process.
\* The call record counts the requests served and the catalogue
\* constructions (calls of build_all_career_profiles) they made.
\* ------------------------------------------------------------------------
MaxRequests == 2

Requests == IF call.op = "rank_profiles" THEN call.requests ELSE 0
Builds == IF call.op = "rank_profiles" THEN call.builds ELSE 0

\* lines 7-23: the request builds the catalogue (line 10), then ranks it
RankRequest(psych, built) ==
    /\ call.op \in {"none", "rank_profiles"}
    /\ Requests < MaxRequests
    /\ call' = [op |-> "rank_profiles", requests |-> Requests + 1,
                builds |-> Builds + 1]
    /\ ret' = RankBuilt(UserProfile(psych), built)
    /\ career_profiles' = IF built.ok THEN built.val ELSE career_profiles
    /\ user_profile' = psych
    /\ UNCHANGED <<files, soc_codes>>

CallRankRequest(psych) ==
    RankRequest(psych, build_all_career_profiles(files, soc_codes))

NextRequests ==
    \/ \E f \in FileNames : \E row \in CleanRows[f] : WriteRow(f, row)
    \/ \E soc_code \in Socs : WriteSocCode(soc_code)
    \/ \E psych \in Users : CallRankRequest(psych)

SpecRequests == Init /\ [][NextRequests]_vars

\* ------------------------------------------------------------------------
\* scripts/rank_all_careers.py: two ranking requests interleaved over one
\* catalogue in memory. call.reqs[r] holds request r's locals: the person it
\* ranks, the number of occupations it has scored and its results dict;
\* ret[r] is what request r returned or raised.
\* ------------------------------------------------------------------------
RequestIds == {1, 2}

\* line 7 and lines 12-13: a request starts with empty dicts of its own
NewRequest(psych) == [psych |-> psych, pc |-> 0, results |-> EmptyDict]

\* a plain occupation, a demanding one, and one whose work styles are the
\* class object
SharedRoles ==
    {Role(Uniform(APTITUDE_TYPES, Half), EmptyDict, EmptyDict,
          WorkStyles(EmptyDict).val),
     Role(EmptyDict, [science |-> One], Uniform(TRAIT_TYPES, One),
          WorkStyles([team_based |-> One]).val),
     Role(EmptyDict, EmptyDict, EmptyDict, WorkStylesClass)}

RankingCatalogues ==
    {[order |-> <<"s1", "s2">>,
      prof |-> [c \in Socs |-> [soc_code |-> c] @@ p[c]]] :
        p \in [Socs -> SharedRoles]}

InitConcurrent ==
    /\ files = NoFiles
    /\ soc_codes = <<>>
    /\ career_profiles \in RankingCatalogues
    /\ user_profile \in Users
    /\ \E other \in Users :
           call = [op |-> "rank_profiles",
                   reqs |-> <<NewRequest(user_profile), NewRequest(other)>>]
    /\ ret = [r \in RequestIds |-> NoResult]

LoopStep_SharedResults(reqs, r, soc_code, scores) ==
    [q \in DOMAIN reqs |->
        [reqs[q] EXCEPT !.results = Put(@, soc_code, scores),
                        !.pc = IF q = r THEN @ + 1 ELSE @]]

\* lines 17-18: the iteration stores the scores in the request's own dict
LoopStep(reqs, r, soc_code, scores) ==
    [reqs EXCEPT ![r].results = Put(@, soc_code, scores), ![r].pc = @ + 1]

\* the request is over: it returned or raised
Over(reqs, r) ==
    [reqs EXCEPT ![r].pc = Len(career_profiles.order) + 1]

\* lines 15-18: request r scores its next occupation
ScoreStep(r, soc_code, scores) ==
    /\ IF scores.ok
       THEN /\ call' = [call EXCEPT
                           !.reqs = LoopStep(call.reqs, r, soc_code, scores.val)]
            /\ ret' = ret
       ELSE /\ call' = [call EXCEPT !.reqs = Over(call.reqs, r)]
            /\ ret' = [ret EXCEPT ![r] = scores]
    /\ UNCHANGED <<files, soc_codes, career_profiles, user_profile>>

ScoreNext(r) ==
    /\ call.reqs[r].pc < Len(career_profiles.order)
    /\ ScoreStep(r, career_profiles.order[call.reqs[r].pc + 1],
                 match_user_to_role(
                     UserProfile(call.reqs[r].psych),
                     career_profiles.prof[
                         career_profiles.order[call.reqs[r].pc + 1]]))

\* lines 18-23: the totals of the results, sorted, and the results returned
Finish(r) ==
    /\ call.reqs[r].pc = Len(career_profiles.order)
    /\ call' = [call EXCEPT !.reqs = Over(call.reqs, r)]
    /\ ret' = [ret EXCEPT ![r] =
                  Ok([results |-> call.reqs[r].results,
                      rank_list |->
                          sorted_reverse(
                              [k \in 1..Len(career_profiles.order) |->
                                  RankItem(career_profiles.order[k],
                                           call.reqs[r].results[
                                               career_profiles.order[k]])])])]
    /\ UNCHANGED <<files, soc_codes, career_profiles, user_profile>>

NextConcurrent ==
    \/ \E r \in RequestIds : ScoreNext(r)
    \/ \E r \in RequestIds : Finish(r)

SpecConcurrent == InitConcurrent /\ [][NextConcurrent]_vars

\* ------------------------------------------------------------------------
\* ingestion/build_career_profiles.py: the catalogue built twice from the
\* same files. merge_traits iterates over a set of codes, whose order is the
\* interpreter's choice: each build visits the codes in an order of its own.
\* ------------------------------------------------------------------------
\* merged_by_soc and the sources summed by the iteration before
NoMerge == [seen |-> <<>>, merged |-> EmptyDict]

MergeStep_RunningSums(st, soc_code, ws_traits_by_soc, wa_traits_by_soc) ==
    LET sources == st.seen \o TraitSources(ws_traits_by_soc, wa_traits_by_soc,
                                           soc_code)
    IN  [seen |-> sources,
         merged |-> Put(st.merged, soc_code,
                        Traits(AveragedScores(sources)).val)]

\* lines 323-344: one iteration; trait_sums and trait_counts start empty
MergeStep(st, soc_code, ws_traits_by_soc, wa_traits_by_soc) ==
    LET sources == TraitSources(ws_traits_by_soc, wa_traits_by_soc, soc_code)
    IN  [seen |-> sources,
         merged |-> Put(st.merged, soc_code,
                        Traits(AveragedScores(sources)).val)]

\* lines 321-346: the loop over all_socs, visited in the order visit
RECURSIVE MergeVisiting(_, _, _, _, _)
MergeVisiting(visit, i, st, ws_traits_by_soc, wa_traits_by_soc) ==
    IF i > Len(visit) THEN Ok(st.merged)
    ELSE MergeVisiting(visit, i + 1,
                       MergeStep(st, visit[i], ws_traits_by_soc,
                                 wa_traits_by_soc),
                       ws_traits_by_soc, wa_traits_by_soc)

\* line 403 with the visiting order chosen, unless a source raised
MergeBuiltVisiting(visit, tr_ws, tr_wa) ==
    IF ~tr_ws.ok THEN tr_ws
    ELSE IF ~tr_wa.ok THEN tr_wa
    ELSE MergeVisiting(visit, 1, NoMerge, tr_ws.val, tr_wa.val)

\* line 321: the orders in which set(ws) | set(wa) can be iterated
Visits(tr_ws, tr_wa) ==
    IF ~tr_ws.ok \/ ~tr_wa.ok THEN {<<>>}
    ELSE {o \in Orders :
             SeqToSet(o) = (DOMAIN tr_ws.val) \cup (DOMAIN tr_wa.val)}

\* rows of two occupations for the two Traits sources, one for the others
RebuildRows ==
    [abilities |-> {Row("s1", "Number Facility", "LV", Num(7))},
     interests |-> {Row("s1", "Realistic", "OI", Num(7))},
     work_styles |-> {Row("s1", "Innovation", "WI", Num(3)),
                      Row("s2", "Adaptability", "WI", Num(3))},
     work_activities |->
         {Row("s1", "Analyzing Data or Information", "IM", Num(5)),
          Row("s2", "Guiding, Directing, and Motivating Subordinates",
              "IM", Num(5))},
     work_values |-> {Row("s1", "Achievement", "EX", Num(7))}]

\* merge_traits run twice on the same two sources
MergeTwice(tr_ws, tr_wa) ==
    \E first \in Visits(tr_ws, tr_wa) :
        \E second \in Visits(tr_ws, tr_wa) :
            /\ call.op = "none"
            /\ call' = [op |-> "merge_traits", first |-> first,
                        second |-> second]
            /\ ret' = <<MergeBuiltVisiting(first, tr_ws, tr_wa),
                        MergeBuiltVisiting(second, tr_ws, tr_wa)>>
            /\ UNCHANGED <<files, soc_codes, career_profiles, user_profile>>

CallMergeTwice ==
    MergeTwice(build_traits_from_work_styles(files.work_styles),
               build_traits_from_work_activities(files.work_activities))

\* build_all_career_profiles run twice on the same files
BuildTwice(apts, ints, vals, tr_ws, tr_wa) ==
    \E first \in Visits(tr_ws, tr_wa) :
        \E second \in Visits(tr_ws, tr_wa) :
            /\ call.op = "none"
            /\ call' = [op |-> "build_all_career_profiles", first |-> first,
                        second |-> second]
            /\ ret' = <<ProfilesFrom(soc_codes, apts, ints, vals,
                            MergeBuiltVisiting(first, tr_ws, tr_wa)),
                        ProfilesFrom(soc_codes, apts, ints, vals,
                            MergeBuiltVisiting(second, tr_ws, tr_wa))>>
            /\ UNCHANGED <<files, soc_codes, career_profiles, user_profile>>

CallBuildTwice ==
    BuildTwice(build_aptitudes_from_abilities(files.abilities),
               build_interests(files.interests),
               build_values_from_work_values(files.work_values),
               build_traits_from_work_styles(files.work_styles),
               build_traits_from_work_activities(files.work_activities))

NextRebuild ==
    \/ \E f \in FileNames : \E row \in RebuildRows[f] : WriteRow(f, row)
    \/ \E soc_code \in Socs : WriteSocCode(soc_code)
    \/ CallMergeTwice
    \/ CallBuildTwice

SpecRebuild == Init /\ [][NextRebuild]_vars

\* ------------------------------------------------------------------------
\* core/profile.py: two profiles created as PsychometricProfile(). The
\* components are objects: user_profile.objects maps a reference to the
\* component it holds, user_profile.profiles[i].refs names the objects
\* profile i's attributes point to.
\* ------------------------------------------------------------------------
ProfileIds == {1, 2}

\* line 5: the default arguments Aptitudes(), Interests(), Traits(), Values(),
\* WorkStyles() are evaluated once, when the def statement runs
DefaultArguments == [component \in SeqToSet(ComponentNames) |-> component]

DefaultObjects ==
    [aptitudes |-> Aptitudes(EmptyDict).val,
     interests |-> Interests(EmptyDict).val,
     traits |-> Traits(EmptyDict).val,
     values |-> Values(EmptyDict).val,
     work_styles |-> WorkStyles(EmptyDict).val]

\* lines 6-28: PsychometricProfile() binds its attributes to the arguments
NewProfile(refs) ==
    [refs |-> refs,
     totals |-> [q \in QuestionTypes |-> EmptyDict],
     counts |-> [q \in QuestionTypes |-> EmptyDict],
     total_answers |-> 0,
     confidence |-> Zero]

\* the profile with the components its attributes point to
Deref(profile, objects) ==
    [aptitudes |-> objects[profile.refs["aptitudes"]],
     interests |-> objects[profile.refs["interests"]],
     traits |-> objects[profile.refs["traits"]],
     values |-> objects[profile.refs["values"]],
     work_styles |-> objects[profile.refs["work_styles"]],
     totals |-> profile.totals, counts |-> profile.counts,
     total_answers |-> profile.total_answers,
     confidence |-> profile.confidence]

\* the attributes of self that are not components
OwnFields(profile, self) ==
    [refs |-> profile.refs, totals |-> self.totals, counts |-> self.counts,
     total_answers |-> self.total_answers, confidence |-> self.confidence]

\* lines 93-111: set writes into the objects the attributes point to
ObjectsAfter(profile, self, objects) ==
    [ref \in DOMAIN objects |->
        IF \E component \in SeqToSet(ComponentNames) :
               profile.refs[component] = ref
        THEN self[CHOOSE component \in SeqToSet(ComponentNames) :
                      profile.refs[component] = ref]
        ELSE objects[ref]]

InitTwoProfiles ==
    /\ files = NoFiles
    /\ soc_codes = <<>>
    /\ career_profiles = EmptyCatalogue
    /\ user_profile = [objects |-> DefaultObjects,
                       profiles |-> [i \in ProfileIds |->
                                        NewProfile(DefaultArguments)]]
    /\ call = NoCall
    /\ ret = NoResult

AddAnswerTo(i, answer, done) ==
    /\ user_profile.profiles[i].total_answers < MaxAnswers
    /\ call' = [op |-> "add_answer", profile |-> i, answer |-> answer]
    /\ ret' = IF done.ok THEN Ok(None) ELSE done
    /\ user_profile' =
           IF done.ok
           THEN [user_profile EXCEPT
                   !.profiles[i] = OwnFields(@, done.val)]
           ELSE user_profile
    /\ UNCHANGED <<files, soc_codes, career_profiles>>

CallAddAnswerTo(i, answer) ==
    AddAnswerTo(i, answer,
                add_answer(Deref(user_profile.profiles[i], user_profile.objects),
                           answer))

FinaliseOf(i, self) ==
    /\ call.op = "add_answer"
    /\ call' = [op |-> "finalise", profile |-> i]
    /\ ret' = Ok(None)
    /\ user_profile' =
           [objects |-> ObjectsAfter(user_profile.profiles[i], self,
                                     user_profile.objects),
            profiles |-> [user_profile.profiles EXCEPT
                            ![i] = OwnFields(@, self)]]
    /\ UNCHANGED <<files, soc_codes, career_profiles>>

CallFinaliseOf(i) ==
    FinaliseOf(i, finalise(Deref(user_profile.profiles[i],
                                 user_profile.objects)))

NextTwoProfiles ==
    \/ \E i \in ProfileIds : \E answer \in SubmittedAnswers :
           CallAddAnswerTo(i, answer)
    \/ \E i \in ProfileIds : CallFinaliseOf(i)

SpecTwoProfiles == InitTwoProfiles /\ [][NextTwoProfiles]_vars

\* ------------------------------------------------------------------------
\* Properties
\* ------------------------------------------------------------------------
Called(op) == call.op = op

RankedCodes(rank_list) == {rank_list[i][1] : i \in 1..Len(rank_list)}

NonIncreasing(rank_list) ==
    \A i \in 1..(Len(rank_list) - 1) : RLe(rank_list[i + 1][2], rank_list[i][2])

\* C1: for every person profile and every catalogue built from the reference
\* files, rank_profiles returns without raising, with exactly one entry per
\* catalogued occupation and totals that never increase down the ranking.
C1_RankingCompleteAndSorted ==
    Called("rank_profiles") =>
        /\ ret.ok
        /\ Len(ret.val.rank_list) = Cardinality(SeqToSet(soc_codes))
        /\ RankedCodes(ret.val.rank_list) = SeqToSet(soc_codes)
        /\ NonIncreasing(ret.val.rank_list)

HasRows(f, soc_code) ==
    \E i \in 1..Len(files[f]) : files[f][i].soc = soc_code

AllZero(component) ==
    /\ component.inst
    /\ \A d \in DOMAIN component.scores : component.scores[d] = Zero

\* C2: build_all_career_profiles raises nothing and returns a profile for
\* every code of the SOC list; a component whose sources hold no row for the
\* code is an instance with every dimension 0.0.
C2_EveryCodeProfiledWithZeroDefaults ==
    Called("build_all_career_profiles") =>
        /\ ret.ok
        /\ \A soc_code \in SeqToSet(soc_codes) :
              /\ soc_code \in DOMAIN ret.val.prof
              /\ LET p == ret.val.prof[soc_code] IN
                 /\ ~HasRows("abilities", soc_code) => AllZero(p.aptitudes)
                 /\ ~HasRows("interests", soc_code) => AllZero(p.interests)
                 /\ ~HasRows("work_values", soc_code) => AllZero(p.values)
                 /\ (~HasRows("work_styles", soc_code)
                     /\ ~HasRows("work_activities", soc_code))
                    => (AllZero(p.traits) /\ AllZero(p.work_styles))

\* C3: every entry of the returned ranking is a triple
\* (occupation code, display title, total score).
C3_EntriesAreTriples ==
    (Called("rank_catalogue") /\ ret.ok) =>
        \A i \in 1..Len(ret.val.rank_list) : Len(ret.val.rank_list[i]) = 3

BreakdownKeys ==
    SeqToSet(ComponentNames)
    \cup {"profile_peakiness", "career_specificity", "peak_alignment", "total"}

\* C4: the results hold, for every catalogued occupation, a breakdown with
\* the five component scores, the three shape metrics and the total, and
\* that total is the score paired with the occupation in the ranking.
C4_BreakdownTotalMatchesRanking ==
    (Called("rank_catalogue") /\ ret.ok) =>
        /\ DOMAIN ret.val.results = SeqToSet(career_profiles.order)
        /\ RankedCodes(ret.val.rank_list) = SeqToSet(career_profiles.order)
        /\ \A soc_code \in DOMAIN ret.val.results :
              BreakdownKeys \subseteq DOMAIN ret.val.results[soc_code]
        /\ \A i \in 1..Len(ret.val.rank_list) :
              ret.val.rank_list[i][2]
                  = ret.val.results[ret.val.rank_list[i][1]]["total"]

\* two occupations with different breakdowns were ranked
C4_Witness ==
    /\ Called("rank_catalogue")
    /\ ret.ok
    /\ Len(ret.val.rank_list) = 2
    /\ ret.val.results["s1"]["aptitudes"] # ret.val.results["s1"]["total"]
    /\ ret.val.results["s1"]["total"] # ret.val.results["s2"]["total"]

Position(order, soc_code) == CHOOSE k \in 1..Len(order) : order[k] = soc_code

\* C5: two occupations with equal total appear in the ranking in their
\* catalogue insertion order.
C5_TiesKeepCatalogueOrder ==
    (Called("rank_catalogue") /\ ret.ok) =>
        \A i \in 1..Len(ret.val.rank_list) : \A j \in 1..Len(ret.val.rank_list) :
            (i < j /\ ret.val.rank_list[i][2] = ret.val.rank_list[j][2])
            => Position(career_profiles.order, ret.val.rank_list[i][1])
                 < Position(career_profiles.order, ret.val.rank_list[j][1])

\* a tie between two occupations inserted as s2, s1
C5_Witness ==
    /\ Called("rank_catalogue")
    /\ ret.ok
    /\ career_profiles.order = <<"s2", "s1">>
    /\ ret.val.rank_list[1][2] = ret.val.rank_list[2][2]
    /\ ret.val.rank_list[1][1] = "s2"

\* the declared raw range of each scale
SCALE_RANGES ==
    [LV |-> <<0, 7>>, IM |-> <<1, 5>>, IH |-> <<0, 6>>, OI |-> <<1, 7>>,
     WI |-> <<-3, 3>>, DR |-> <<0, 10>>, VH |-> <<1, 6>>, EX |-> <<1, 7>>]

\* the affine map sending lo to a and hi to b, at x
Affine(lo, hi, a, b, x) ==
    RAdd(FromInt(a),
         RDiv(RMul(FromInt(b - a), RSub(x, FromInt(lo))), FromInt(hi - lo)))

BuilderFile ==
    [build_aptitudes_from_abilities |-> "abilities",
     build_interests |-> "interests",
     build_traits_from_work_styles |-> "work_styles",
     build_traits_from_work_activities |-> "work_activities",
     build_values_from_work_values |-> "work_values"]

UsedScales ==
    [abilities |-> {"LV", "IM"}, interests |-> {"OI"}, work_styles |-> {"WI"},
     work_activities |-> {"LV", "IM"}, work_values |-> {"EX", "VH"}]

CategoryMap ==
    [abilities |-> ABILITY_MAP, interests |-> INTEREST_MAP,
     work_styles |-> WORK_STYLE_MAP, work_activities |-> WORK_ACTIVITY_MAP,
     work_values |-> WORK_VALUE_MAP]

BuilderResult(op, fs) ==
    CASE op = "build_aptitudes_from_abilities"
           -> build_aptitudes_from_abilities(fs.abilities)
      [] op = "build_interests" -> build_interests(fs.interests)
      [] op = "build_traits_from_work_styles"
           -> build_traits_from_work_styles(fs.work_styles)
      [] op = "build_traits_from_work_activities"
           -> build_traits_from_work_activities(fs.work_activities)
      [] OTHER -> build_values_from_work_values(fs.work_values)

Malformed(f, row) == row.scale \notin Scales \/ row.value.kind # "num"

\* the files with every malformed row removed
WithoutMalformed(fs) ==
    [f \in FileNames |-> SelectSeq(fs[f], LAMBDA row : ~Malformed(f, row))]

\* C7: in every category builder a row with an unknown scale identifier or
\* a data value that is not a number (a missing value included) is dropped:
\* the builder returns what it returns on the input without that row.
C7_MalformedRowsAreDropped ==
    (call.op \in DOMAIN BuilderFile) =>
        ret = BuilderResult(call.op, WithoutMalformed(files))

Skippable(f, row) ==
    \/ row.scale \in Scales \ UsedScales[f]
    \/ /\ row.element \notin DOMAIN CategoryMap[f]
       /\ ~(f = "work_values" /\ row.scale = "VH")

\* the files with every such row removed
WithoutSkippable(fs) ==
    [f \in FileNames |-> SelectSeq(fs[f], LAMBDA row : ~Skippable(f, row))]

\* C8: in every category builder a row whose element has no entry in the
\* category's mapping table, or whose scale is a known scale the category
\* does not use, is skipped: no error, no contribution to any dimension.
C8_UnmappedAndUnusedScaleRowsAreSkipped ==
    (call.op \in DOMAIN BuilderFile) =>
        ret = BuilderResult(call.op, WithoutSkippable(files))

\* the dimensions a Traits source aggregated a value for, per occupation
WorkStylesProduced(fs, soc_code) ==
    LET data == OneScaleRead(fs.work_styles, 1, EmptyDict, WORK_STYLE_MAP, "WI").val
    IN  IF soc_code \in DOMAIN data THEN DOMAIN data[soc_code] ELSE {}

WorkActivitiesProduced(fs, soc_code) ==
    LET data == TwoScaleRead(fs.work_activities, 1, EmptyDict, WORK_ACTIVITY_MAP).val
    IN  IF soc_code \in DOMAIN data THEN DOMAIN data[soc_code] ELSE {}

\* the values the two sources produced for one trait of one occupation
ProducedValues(fs, soc_code, trait) ==
    (IF trait \in WorkStylesProduced(fs, soc_code)
     THEN <<build_traits_from_work_styles(fs.work_styles).val[soc_code].scores[trait]>>
     ELSE <<>>)
    \o (IF trait \in WorkActivitiesProduced(fs, soc_code)
        THEN <<build_traits_from_work_activities(fs.work_activities)
                   .val[soc_code].scores[trait]>>
        ELSE <<>>)

\* C9: each merged trait is the mean over only the sources that produced a
\* value for it: one source keeps its value, two sources are averaged.
C9_MergeAveragesProducingSourcesOnly ==
    (Called("merge_traits") /\ ret.ok) =>
        \A soc_code \in DOMAIN ret.val : \A trait \in SeqToSet(TRAIT_TYPES) :
            LET produced == ProducedValues(files, soc_code, trait) IN
            produced # <<>> => ret.val[soc_code].scores[trait] = RMean(produced)

\* the value dimensions a valid top-3 (VH) row indicates for an occupation
Indicated(rows, soc_code) ==
    {WORK_VALUE_MAP[VH_VALUE_MAP[int(rows[i].value.v)]][1] :
        i \in {k \in 1..Len(rows) :
                 /\ rows[k].soc = soc_code
                 /\ rows[k].scale = "VH"
                 /\ rows[k].value.kind = "num"
                 /\ int(rows[k].value.v) \in 1..6}}

\* the magnitude (EX) reading held for a dimension of an occupation
Magnitude(rows, soc_code, value_name) ==
    LET ex == ValuesRead(rows, 1, [ex |-> EmptyDict, vh |-> EmptyDict]).val.ex
    IN  Get(Get(ex, soc_code, EmptyDict), value_name, Zero)

RowSocs(rows) == {rows[i].soc : i \in 1..Len(rows)}

ValueScore(result, soc_code, value_name) ==
    Get(result, soc_code, Values(EmptyDict).val).scores[value_name]

\* C10: with a top-3 indicator present for an occupation, every value
\* dimension that is not indicated is 0.0 and every indicated one keeps its
\* magnitude; with none, every dimension keeps its magnitude.
C10_TopThreeRule ==
    (Called("build_values_from_work_values") /\ ret.ok) =>
        \A soc_code \in RowSocs(files.work_values) :
            \A value_name \in SeqToSet(VALUE_TYPES) :
                LET top3 == Indicated(files.work_values, soc_code)
                    kept == Magnitude(files.work_values, soc_code, value_name)
                IN  ValueScore(ret.val, soc_code, value_name)
                      = IF top3 # {} /\ value_name \notin top3 THEN Zero ELSE kept

\* a positive magnitude on a dimension outside the top 3 was zeroed
C10_Witness ==
    /\ Called("build_values_from_work_values")
    /\ ret.ok
    /\ Indicated(files.work_values, "s1") = {"autonomy"}
    /\ Magnitude(files.work_values, "s1", "financial_security") = One
    /\ ValueScore(ret.val, "s1", "financial_security") = Zero

\* the four linear combinations of one occupation's merged traits
LinearWorkStyles(t) ==
    [team_based |-> RAdd(t["social"], t["leadership"]),
     structure |-> RSub(t["detail_oriented"], t["adaptability"]),
     pace |-> RAdd(t["leadership"], t["adaptability"]),
     ambiguity_tolerance |->
         RSub(RAdd(t["adaptability"], t["creative"]), t["detail_oriented"])]

\* C11: the WorkStyles derived for an occupation are exactly the linear
\* combinations of its merged Traits, stored without clamping.
C11_DerivedWorkStylesAreUnclampedCombinations ==
    (Called("derive_work_styles") /\ MergedTraits(files).ok) =>
        /\ ret.ok
        /\ DOMAIN ret.val = DOMAIN MergedTraits(files).val
        /\ \A soc_code \in DOMAIN ret.val :
              ret.val[soc_code].scores
                = LinearWorkStyles(MergedTraits(files).val[soc_code].scores)

\* the weighted normalised observations of one scale that a file holds for
\* one dimension of one occupation, in file order
Observations(rows, MAP, soc_code, dimension, scale) ==
    LET feeding == SelectSeq(rows, LAMBDA row :
                       /\ row.soc = soc_code
                       /\ row.scale = scale
                       /\ row.element \in DOMAIN MAP
                       /\ MAP[row.element][1] = dimension
                       /\ row.value.kind = "num")
    IN  [i \in 1..Len(feeding) |->
            RMul(normalise(feeding[i].value, scale).val, MAP[feeding[i].element][2])]

MeanOrZero(observations) ==
    IF observations = <<>> THEN Zero ELSE RMean(observations)

\* wl x LV-mean + wi x IM-mean of the observations of one dimension
Blend(rows, MAP, soc_code, dimension, wl, wi) ==
    RAdd(RMul(wl, MeanOrZero(Observations(rows, MAP, soc_code, dimension, "LV"))),
         RMul(wi, MeanOrZero(Observations(rows, MAP, soc_code, dimension, "IM"))))

Observed(rows, MAP, soc_code, dimension) ==
    \/ Observations(rows, MAP, soc_code, dimension, "LV") # <<>>
    \/ Observations(rows, MAP, soc_code, dimension, "IM") # <<>>

\* every occupation with an observation has a component, and each observed
\* dimension of it holds the blend
BlendedResult(result, rows, MAP, types, wl, wi) ==
    /\ DOMAIN result
         = {soc_code \in RowSocs(rows) :
               \E dimension \in SeqToSet(types) :
                   Observed(rows, MAP, soc_code, dimension)}
    /\ \A soc_code \in DOMAIN result : \A dimension \in SeqToSet(types) :
          Observed(rows, MAP, soc_code, dimension) =>
              result[soc_code].scores[dimension]
                = Blend(rows, MAP, soc_code, dimension, wl, wi)

\* C12: a two-scale source aggregates each (occupation, dimension) to the
\* blend of the per-scale means of its weighted normalised observations:
\* 0.6 x LV + 0.4 x IM for abilities, 0.4 x LV + 0.6 x IM for work activities.
C12_TwoScaleAggregateIsBlendOfMeans ==
    /\ (Called("build_aptitudes_from_abilities") /\ ret.ok) =>
          BlendedResult(ret.val, files.abilities, ABILITY_MAP, APTITUDE_TYPES,
                        <<3, 5>>, <<2, 5>>)
    /\ (Called("build_traits_from_work_activities") /\ ret.ok) =>
          BlendedResult(ret.val, files.work_activities, WORK_ACTIVITY_MAP,
                        TRAIT_TYPES, <<2, 5>>, <<3, 5>>)

\* an ability observed on both scales was blended
C12_Witness ==
    /\ Called("build_aptitudes_from_abilities")
    /\ ret.ok
    /\ Observations(files.abilities, ABILITY_MAP, "s1", "numerical_reasoning", "LV")
         # <<>>
    /\ Observations(files.abilities, ABILITY_MAP, "s1", "numerical_reasoning", "IM")
         # <<>>
    /\ ret.val["s1"].scores["numerical_reasoning"] = One

\* every occupation with an observation on the scale has a component, and
\* each observed dimension of it holds the clamped mean of its observations
MeanResult(result, rows, MAP, types, scale) ==
    /\ DOMAIN result
         = {soc_code \in RowSocs(rows) :
               \E dimension \in SeqToSet(types) :
                   Observations(rows, MAP, soc_code, dimension, scale) # <<>>}
    /\ \A soc_code \in DOMAIN result : \A dimension \in SeqToSet(types) :
          LET observations == Observations(rows, MAP, soc_code, dimension, scale)
          IN  observations # <<>> =>
                result[soc_code].scores[dimension] = clamp(RMean(observations))

\* the same for the value magnitudes, which the top-3 rule may set to 0.0
MeanMagnitudes(result, rows) ==
    \A soc_code \in DOMAIN result : \A value_name \in SeqToSet(VALUE_TYPES) :
        LET observations ==
                Observations(rows, WORK_VALUE_MAP, soc_code, value_name, "EX")
            top3 == Indicated(rows, soc_code)
        IN  (observations # <<>> /\ (top3 = {} \/ value_name \in top3)) =>
                result[soc_code].scores[value_name] = clamp(RMean(observations))

C13_InterestsAreMeans ==
    (Called("build_interests") /\ ret.ok) =>
        MeanResult(ret.val, files.interests, INTEREST_MAP, INTEREST_TYPES, "OI")

C13_WorkStyleTraitsAreMeans ==
    (Called("build_traits_from_work_styles") /\ ret.ok) =>
        MeanResult(ret.val, files.work_styles, WORK_STYLE_MAP, TRAIT_TYPES, "WI")

C13_ValueMagnitudesAreMeans ==
    (Called("build_values_from_work_values") /\ ret.ok) =>
        MeanMagnitudes(ret.val, files.work_values)

\* C13: a one-scale source (interests from OI, work-style traits from WI,
\* value magnitudes from EX) aggregates each (occupation, dimension) to the
\* arithmetic mean of all its weighted normalised observations.
C13_OneScaleAggregateIsMean ==
    /\ C13_InterestsAreMeans
    /\ C13_WorkStyleTraitsAreMeans
    /\ C13_ValueMagnitudesAreMeans

\* the raw answers given to the questions mapped to one dimension
AnswersFor(answers, component, dimension) ==
    {i \in 1..Len(answers) :
        /\ answers[i][1] \in DOMAIN QUESTION_MAPPING
        /\ QUESTION_MAPPING[answers[i][1]] = <<component, dimension>>}

\* clamp(mean / 5) as one fraction: total / (5 x count), kept within [0, 1]
NormalisedMean(answers, indices) ==
    LET total == SumOver(indices, [i \in indices |-> FromInt(answers[i][2])])
        mean5 == Rat(total[1], total[2] * 5 * Cardinality(indices))
    IN  IF RLt(mean5, Zero) THEN Zero ELSE IF RLt(One, mean5) THEN One ELSE mean5

ComponentTypes ==
    [aptitudes |-> APTITUDE_TYPES, interests |-> INTEREST_TYPES,
     traits |-> TRAIT_TYPES, values |-> VALUE_TYPES,
     work_styles |-> WORK_STYLE_TYPES]

\* C14: convert_answers_to_profile sets every dimension with an answered
\* question to clamp(mean(answers) / 5) and leaves every other dimension at
\* 0.0; identifiers outside the mapping are ignored; all answers 5 give 1.0
\* on every answered dimension.
C14_ConverterAveragesAndNormalises ==
    Called("convert_answers_to_profile") =>
        /\ ret.ok
        /\ \A component \in DOMAIN ComponentTypes :
              \A dimension \in SeqToSet(ComponentTypes[component]) :
                  LET indices == AnswersFor(call.answers, component, dimension)
                  IN  ret.val[component].scores[dimension]
                        = IF indices = {} THEN Zero
                          ELSE NormalisedMean(call.answers, indices)
        /\ (call.answers = AllFives) =>
              \A component \in DOMAIN ComponentTypes :
                  \A dimension \in SeqToSet(ComponentTypes[component]) :
                      ret.val[component].scores[dimension] = One

\* an answer below 5 was normalised, beside an identifier that is ignored
C14_Witness ==
    /\ Called("convert_answers_to_profile")
    /\ call.answers = <<<<"X9", 5>>, <<"A1", 3>>>>
    /\ ret.ok
    /\ ret.val.aptitudes.scores["numerical_reasoning"] = <<3, 5>>
    /\ ret.val.aptitudes.scores["memory"] = Zero

\* the questions of the mapping that an answer set answers
AnsweredQuestions(answers) ==
    {i \in 1..Len(answers) : answers[i][1] \in DOMAIN QUESTION_MAPPING}

\* the answers add_answer accepted: one count per accepted answer
AcceptedAnswers(self) ==
    SumOver({<<q, d>> : q \in QuestionTypes, d \in UNION {DOMAIN self.counts[t] : t \in QuestionTypes}},
            [p \in {<<q, d>> : q \in QuestionTypes,
                               d \in UNION {DOMAIN self.counts[t] : t \in QuestionTypes}}
                |-> FromInt(Get(self.counts[p[1]], p[2], 0))])[1]

ExpectedConfidence(answered) ==
    IF answered >= 20 THEN One ELSE Rat(answered, 20)

C15_FinaliseSetsConfidence ==
    Called("finalise") =>
        user_profile.confidence = ExpectedConfidence(AcceptedAnswers(user_profile))

\* C15: the person profile built from a set of answers has confidence
\* min(number of answered questions / 20, 1.0), whether it is built by
\* convert_answers_to_profile or by add_answer followed by finalise.
C15_ConfidenceIsAnsweredOverTwenty ==
    /\ (Called("convert_answers_to_profile") /\ ret.ok) =>
          ret.val.confidence
            = ExpectedConfidence(Cardinality(AnsweredQuestions(call.answers)))
    /\ C15_FinaliseSetsConfidence

\* the sum, over the dimensions in their declared order, of term[d]
SumOfDimensions(types, term) == RSum([i \in 1..Len(types) |-> term[types[i]]])

MinFit(user, role) ==
    SumOfDimensions(APTITUDE_TYPES,
        [d \in SeqToSet(APTITUDE_TYPES) |->
            IF RLt(user.scores[d], role.scores[d]) THEN user.scores[d]
            ELSE role.scores[d]])

\* the person component with one dimension set to another score
WithScore(user, dimension, score) ==
    [user EXCEPT !.scores[dimension] = score]

\* C16: match_aptitudes is the sum over the occupation's dimensions of
\* min(person value, occupation value); it never decreases when a person
\* value rises, and does not change once that value is at or above the
\* occupation's.
C16_AptitudeFitIsSumOfMinima ==
    Called("match_aptitudes") =>
        /\ ret.ok
        /\ ret.val = MinFit(call.user, call.role)
        /\ \A d \in SeqToSet(APTITUDE_TYPES) : \A score \in Grid :
              RLe(call.user.scores[d], score) =>
                  LET raised == match_aptitudes(WithScore(call.user, d, score),
                                                call.role).val
                  IN  /\ RLe(ret.val, raised)
                      /\ RLe(call.role.scores[d], call.user.scores[d])
                            => raised = ret.val

\* a person value above the occupation value counted as the occupation value
C16_Witness ==
    /\ Called("match_aptitudes")
    /\ call.user.scores["numerical_reasoning"] = One
    /\ call.role.scores["numerical_reasoning"] = <<1, 3>>
    /\ call.role.scores["verbal_reasoning"] = Zero
    /\ ret.val = <<1, 3>>

AbsoluteDifference(types, user, role) ==
    SumOfDimensions(types,
        [d \in SeqToSet(types) |->
            IF RLt(user.scores[d], role.scores[d])
            THEN RSub(role.scores[d], user.scores[d])
            ELSE RSub(user.scores[d], role.scores[d])])

\* C17: match_traits and match_work_styles are the negated sum of
\* |person - occupation|: 0 on identical components, symmetric in their
\* arguments, never positive.
C17_PenaltyIsZeroOnEqualSymmetricNonPositive ==
    /\ Called("match_traits") =>
          /\ ret.ok
          /\ ret.val = RNeg(AbsoluteDifference(TRAIT_TYPES, call.user, call.role))
          /\ RLe(ret.val, Zero)
          /\ ret.val = match_traits(call.role, call.user).val
          /\ match_traits(call.user, call.user).val = Zero
          /\ match_traits(call.role, call.role).val = Zero
    /\ Called("match_work_styles") =>
          /\ ret.ok
          /\ ret.val = RNeg(AbsoluteDifference(WORK_STYLE_TYPES, call.user, call.role))
          /\ RLe(ret.val, Zero)
          /\ ret.val = match_work_styles(call.role, call.user).val
          /\ match_work_styles(call.user, call.user).val = Zero
          /\ match_work_styles(call.role, call.role).val = Zero

\* a person above the occupation on one trait and below it on another
C17_Witness ==
    /\ Called("match_traits")
    /\ RLt(call.role.scores["analytical"], call.user.scores["analytical"])
    /\ RLt(call.user.scores["creative"], call.role.scores["creative"])
    /\ RLt(ret.val, Zero)

\* the contributions of a score dict under a given weight table
Reweighted(scores, table) ==
    [component \in (DOMAIN scores) \ METADATA_KEYS |->
        RMul(table[component], scores[component])]

UniformWeights == [component \in DOMAIN COMPONENT_WEIGHTS |-> One]

\* the peak-alignment factor of a peaked profile on a specific career
BonusFactor(scores) ==
    IF RLe(FLAT_PROFILE_THRESHOLD, Get(scores, "career_specificity", Zero))
    THEN RAdd(One, RMul(RDiv(Get(scores, "peak_alignment", Zero), FromInt(3)),
                        PEAK_ALIGNMENT_BONUS))
    ELSE One

Total(contributions) == SumOver(DOMAIN contributions, contributions)

\* C18: aggregate_match weighs every component by exactly 1.0 when
\* profile_peakiness is 0 (the total is that of the unweighted scores, capped
\* towards their mean magnitude), and by exactly its COMPONENT_WEIGHTS entry
\* when profile_peakiness is at least 0.3 (the total is the sum of the
\* table-weighted scores, times the peak-alignment factor).
C18_EffectiveWeightsAreUniformOrTable ==
    (call.op = "aggregate_match") =>
        LET scores == call.scores
            profile_peakiness == Get(scores, "profile_peakiness", Zero)
        IN  /\ (profile_peakiness = Zero) =>
                   /\ WeightedComponents(scores, Zero)
                          = Reweighted(scores, UniformWeights)
                   /\ ret = Ok(Total(Capped(Reweighted(scores, UniformWeights),
                                            Zero)))
            /\ RLe(FLAT_PROFILE_THRESHOLD, profile_peakiness) =>
                   /\ WeightedComponents(scores, One)
                          = Reweighted(scores, COMPONENT_WEIGHTS)
                   /\ ret = Ok(RMul(Total(Reweighted(scores, COMPONENT_WEIGHTS)),
                                    BonusFactor(scores)))

\* a flat call whose table-weighted total would differ from the returned one
C18_Witness ==
    /\ call.op = "aggregate_match"
    /\ Get(call.scores, "profile_peakiness", One) = Zero
    /\ call.scores["interests"] = FromInt(2)
    /\ call.scores["values"] = Half
    /\ ret.ok
    /\ ret.val # Total(Capped(Reweighted(call.scores, COMPONENT_WEIGHTS), Zero))

\* the contributions summed by aggregate_match: reweighted, and capped when
\* the profile is flat
Contributions(scores) ==
    LET profile_peakiness == Get(scores, "profile_peakiness", Zero)
    IN  IF RLt(profile_peakiness, FLAT_PROFILE_THRESHOLD)
        THEN Capped(WeightedComponents(scores,
                        RDiv(profile_peakiness, FLAT_PROFILE_THRESHOLD)),
                    profile_peakiness)
        ELSE WeightedComponents(scores, One)

BelowThreshold(scores, key) ==
    RLt(Get(scores, key, Zero), FLAT_PROFILE_THRESHOLD)

\* C19: whenever profile_peakiness or career_specificity is below 0.3,
\* aggregate_match returns the plain sum of the reweighted (and, for a flat
\* profile, capped) component contributions: no bonus, whatever
\* peak_alignment is.
C19_NoBonusBelowThreshold ==
    (/\ call.op = "aggregate_match"
     /\ \/ BelowThreshold(call.scores, "profile_peakiness")
        \/ BelowThreshold(call.scores, "career_specificity")) =>
        ret = Ok(Total(Contributions(call.scores)))

\* a peaked profile fully aligned with an unspecific career, non-zero total
C19_Witness ==
    /\ call.op = "aggregate_match"
    /\ ~BelowThreshold(call.scores, "profile_peakiness")
    /\ "career_specificity" \in DOMAIN call.scores
    /\ BelowThreshold(call.scores, "career_specificity")
    /\ call.scores["peak_alignment"] = FromInt(3)
    /\ ret.ok
    /\ ret.val # Zero

\* the occupation requires one capability dimension at 0.9 and no other
RequiresOneCapability(role) ==
    \E x \in SeqToSet(APTITUDE_TYPES) :
        role.aptitudes.scores =
            (x :> <<9, 10>>) @@ Uniform(APTITUDE_TYPES, Zero)

\* the occupation requires every capability dimension at 0.5
RequiresEveryCapability(role) ==
    role.aptitudes.scores = Uniform(APTITUDE_TYPES, Half)

DifferOnlyInCapabilities(first, second) ==
    \A component \in SeqToSet(ComponentNames) \ {"aptitudes"} :
        first[component] = second[component]

WellFormed(component) ==
    /\ DOMAIN user_profile[component].scores
           = SeqToSet(DimensionOrder[component])
    /\ (component # "work_styles") =>
           \A d \in DOMAIN user_profile[component].scores :
               /\ RLe(Zero, user_profile[component].scores[d])
               /\ RLe(user_profile[component].scores[d], One)

\* a constructor or set call naming a dimension the component does not have
InvalidDimension(c) ==
    \/ /\ c.op = "set"
       /\ c.name \notin SeqToSet(DimensionOrder[c.component])
    \/ /\ c.op = "init"
       /\ \E k \in DOMAIN c.scores :
              k \notin SeqToSet(DimensionOrder[c.component])

\* C21: a constructor or set call naming a dimension outside the component's
\* fixed set raises and leaves the component unchanged; after any sequence of
\* calls every component has exactly its declared dimensions, and every score
\* of Aptitudes, Interests, Traits and Values lies in [0, 1].
C21_ClosedDimensionsAndUnitScores ==
    /\ [](\A component \in SeqToSet(ComponentNames) : WellFormed(component))
    /\ [][InvalidDimension(call') =>
             /\ ret' = Raise("ValueError")
             /\ user_profile' = user_profile]_vars

\* a rejected set after an accepted one that was clamped from above
C21_Witness ==
    /\ call.op = "set"
    /\ InvalidDimension(call)
    /\ ~ret.ok
    /\ user_profile.traits.scores["analytical"] = One
    /\ user_profile.values.scores["stability"] = Half

\* C22: across the ranking requests of one process the occupation catalogue
\* is constructed at most once; every request after the first reuses it.
C22_CatalogueBuiltAtMostOnce ==
    (call.op = "rank_profiles") => call.builds <= 1

\* what request r returns when it runs alone
Alone(r) ==
    RankCatalogue(UserProfile(call.reqs[r].psych), career_profiles)

IsOver(r) == call.reqs[r].pc = Len(career_profiles.order) + 1

\* C23: concurrent ranking requests never interfere: no step writes to an
\* occupation profile or to a person profile being ranked, and under every
\* interleaving each request returns the ranking and breakdown (or raises
\* the error) it would when run alone.
C23_ConcurrentRequestsDoNotInterfere ==
    /\ [](\A r \in RequestIds : IsOver(r) => ret[r] = Alone(r))
    /\ [][/\ career_profiles' = career_profiles
           /\ user_profile' = user_profile
           /\ \A r \in RequestIds :
                  call'.reqs[r].psych = call.reqs[r].psych]_vars

\* both requests returned rankings, of different persons, after request 2
\* had scored an occupation while request 1 was in its loop
C23_Witness ==
    /\ \A r \in RequestIds : IsOver(r) /\ ret[r].ok
    /\ call.reqs[1].psych # call.reqs[2].psych
    /\ ret[1].val.rank_list # ret[2].val.rank_list

\* the two runs returned the same codes with the same component scores, or
\* raised the same error
SameOutcome(first, second) ==
    /\ first.ok = second.ok
    /\ ~first.ok => first.err = second.err

SameCatalogue(first, second) ==
    /\ SeqToSet(first.order) = SeqToSet(second.order)
    /\ \A soc_code \in SeqToSet(first.order) :
           \A component \in SeqToSet(ComponentNames) :
               first.prof[soc_code][component]
                   = second.prof[soc_code][component]

SameTraits(first, second) ==
    /\ DOMAIN first = DOMAIN second
    /\ \A soc_code \in DOMAIN first :
           first[soc_code].scores = second[soc_code].scores

\* C24: building the catalogue twice from identical reference rows gives
\* the same occupation codes and, for every code, identical scores in all
\* five components, whatever the orders in which merge_traits visits the
\* occupation codes; the merged Traits of the two runs are identical too.
C24_RebuildIsDeterministic ==
    /\ (call.op = "build_all_career_profiles") =>
           /\ SameOutcome(ret[1], ret[2])
           /\ ret[1].ok => SameCatalogue(ret[1].val, ret[2].val)
    /\ (call.op = "merge_traits") =>
           /\ SameOutcome(ret[1], ret[2])
           /\ ret[1].ok => SameTraits(ret[1].val, ret[2].val)

\* two occupations with different traits merged in opposite orders
C24_Witness ==
    /\ call.op = "merge_traits"
    /\ call.first # call.second
    /\ ret[1].ok
    /\ ret[1].val["s1"].scores # ret[1].val["s2"].scores

\* the same score dict with another peak_alignment
WithAlignment(scores, k) == Put(scores, "peak_alignment", FromInt(k))

\* a peaked profile matched to a specific career
BonusApplies(scores) ==
    /\ ~BelowThreshold(scores, "profile_peakiness")
    /\ ~BelowThreshold(scores, "career_specificity")

\* C25: with profile_peakiness and career_specificity both at least 0.3, the
\* total is never lower than the un-bonused weighted sum, never lower than the
\* total the same scores get with a smaller peak_alignment, and exceeds the
\* weighted sum by at most 15% of its magnitude.
C25_BonusNeverLowersTheTotal ==
    (call.op = "aggregate_match" /\ BonusApplies(call.scores)) =>
        LET base == Total(Reweighted(call.scores, COMPONENT_WEIGHTS))
        IN  /\ RLe(base, ret.val)
            /\ \A k \in 0..3 :
                   RLe(FromInt(k), call.scores["peak_alignment"]) =>
                       RLe(aggregate_match(WithAlignment(call.scores, k)),
                           ret.val)
            /\ RLe(RSub(ret.val, base),
                   RMul(PEAK_ALIGNMENT_BONUS, RAbs(base)))

\* the mean magnitude of the weighted contributions
MeanMagnitude(weighted) ==
    RDiv(SumOver(DOMAIN weighted, [c \in DOMAIN weighted |-> RAbs(weighted[c])]),
         FromInt(Cardinality(DOMAIN weighted)))

\* value moved towards the mean magnitude, under its own sign, by a fraction
MovedTowards(value, mean, fraction) ==
    LET target == IF RLe(Zero, value) THEN mean ELSE RNeg(mean)
    IN  RAdd(RMul(RSub(One, fraction), value), RMul(fraction, target))

WeightedOf(scores) ==
    WeightedComponents(scores,
        RMin(RDiv(Get(scores, "profile_peakiness", Zero),
                  FLAT_PROFILE_THRESHOLD), One))

\* C26: with profile_peakiness below 0.3, a weighted contribution no larger in
\* magnitude than the mean magnitude is left as it is, and a larger one is
\* moved towards sign x mean magnitude by the fraction 1 - peakiness/0.3,
\* keeping its sign, so that at peakiness 0 no magnitude exceeds the mean;
\* with profile_peakiness at least 0.3 no contribution is altered. The total
\* returned is the sum of these contributions (times the bonus factor of a
\* peaked profile).
C26_CappingMovesOutliersTowardsMean ==
    (call.op = "aggregate_match") =>
        LET profile_peakiness == Get(call.scores, "profile_peakiness", Zero)
            flatness == RSub(One, RDiv(profile_peakiness, FLAT_PROFILE_THRESHOLD))
            weighted == WeightedOf(call.scores)
            mean == MeanMagnitude(weighted)
            expected ==
                [c \in DOMAIN weighted |->
                    IF RLt(profile_peakiness, FLAT_PROFILE_THRESHOLD)
                       /\ RLt(mean, RAbs(weighted[c]))
                    THEN MovedTowards(weighted[c], mean, flatness)
                    ELSE weighted[c]]
        IN  /\ \A c \in DOMAIN weighted :
                   /\ RLe(Zero, expected[c]) = RLe(Zero, weighted[c])
                   /\ (profile_peakiness = Zero) => RLe(RAbs(expected[c]), mean)
            /\ ret.val = IF RLt(profile_peakiness, FLAT_PROFILE_THRESHOLD)
                         THEN Total(expected)
                         ELSE RMul(Total(expected), BonusFactor(call.scores))

\* a half-flat call with a penalty above the mean magnitude and a fit below
C26_Witness ==
    /\ call.op = "aggregate_match"
    /\ Get(call.scores, "profile_peakiness", Zero) = Rat(3, 20)
    /\ \E c \in DOMAIN WeightedOf(call.scores) :
           /\ RLt(WeightedOf(call.scores)[c], Zero)
           /\ RLt(MeanMagnitude(WeightedOf(call.scores)),
                  RAbs(WeightedOf(call.scores)[c]))
    /\ \E c \in DOMAIN WeightedOf(call.scores) :
           RLt(RAbs(WeightedOf(call.scores)[c]),
               MeanMagnitude(WeightedOf(call.scores)))
    /\ ret.ok

\* the trait has one contribution only, a negative normalised WI reading
OnlyNegativeReading(soc_code, trait) ==
    LET readings == Observations(files.work_styles, WORK_STYLE_MAP, soc_code,
                                 trait, "WI")
    IN  /\ Len(readings) = 1
        /\ RLt(readings[1], Zero)
        /\ soc_code \notin RowSocs(files.work_activities)

\* C27: the sign of work-style (WI) trait readings survives ingestion and
\* merge: a trait of an occupation whose only contribution is a negative
\* normalised WI value has that same negative value in the merged Traits.
C27_NegativeReadingsKeepTheirSign ==
    (Called("merge_traits") /\ ret.ok) =>
        \A soc_code \in DOMAIN ret.val : \A trait \in SeqToSet(TRAIT_TYPES) :
            OnlyNegativeReading(soc_code, trait) =>
                ret.val[soc_code].scores[trait]
                    = Observations(files.work_styles, WORK_STYLE_MAP, soc_code,
                                   trait, "WI")[1]

\* the internal dimension names a mapping table can produce
ProducedNames(MAP) == {MAP[element][1] : element \in DOMAIN MAP}

\* C28: every dimension name that ABILITY_MAP, INTEREST_MAP, WORK_STYLE_MAP
\* or WORK_ACTIVITY_MAP can produce is a dimension of the component it
\* feeds, so no builder of the ingestion raises an invalid-dimension error
\* when it constructs the component from the aggregated rows.
C28_MappedNamesAreDeclaredDimensions ==
    /\ ProducedNames(ABILITY_MAP) \subseteq SeqToSet(APTITUDE_TYPES)
    /\ ProducedNames(INTEREST_MAP) \subseteq SeqToSet(INTEREST_TYPES)
    /\ ProducedNames(WORK_STYLE_MAP) \subseteq SeqToSet(TRAIT_TYPES)
    /\ ProducedNames(WORK_ACTIVITY_MAP) \subseteq SeqToSet(TRAIT_TYPES)
    /\ (call.op \in {"build_aptitudes_from_abilities", "build_interests",
                     "build_traits_from_work_styles",
                     "build_traits_from_work_activities"}) =>
           ret # Raise("ValueError")

\* the ability, interest and work-style tables do stay within their
\* components, and their builders never raise an invalid-dimension error
C28_OtherTablesAreDeclaredDimensions ==
    /\ ProducedNames(ABILITY_MAP) \subseteq SeqToSet(APTITUDE_TYPES)
    /\ ProducedNames(INTEREST_MAP) \subseteq SeqToSet(INTEREST_TYPES)
    /\ ProducedNames(WORK_STYLE_MAP) \subseteq SeqToSet(TRAIT_TYPES)
    /\ (call.op \in {"build_aptitudes_from_abilities", "build_interests",
                     "build_traits_from_work_styles"}) =>
           ret # Raise("ValueError")

\* the component scores read from profile i
ScoresOf(state, i) ==
    [component \in SeqToSet(ComponentNames) |->
        state.objects[state.profiles[i].refs[component]].scores]

\* C29: two profiles created without explicit components own distinct
\* component objects: no add_answer or finalise on one profile changes a
\* component score read from the other.
C29_ProfilesOwnTheirComponents ==
    [][\A i \in ProfileIds :
          (call'.profile # i) =>
              ScoresOf(user_profile', i) = ScoresOf(user_profile, i)]_vars

\* the answers the claim names as rejected
MissingKey(answer) ==
    \E key \in {"question_type", "target", "answer"} : key \notin DOMAIN answer

UnknownQuestionType(answer) ==
    answer.question_type
        \notin {"trait", "interest", "aptitude", "value", "work_style"}

NonNumericValue(answer) == answer.answer \notin {Num(i) : i \in 1..5}

TargetOutside(self, answer) ==
    answer.target
        \notin DOMAIN self[ComponentOf[answer.question_type]].scores

Rejected(self, answer) ==
    \/ MissingKey(answer)
    \/ UnknownQuestionType(answer)
    \/ NonNumericValue(answer)
    \/ TargetOutside(self, answer)

\* the (question type, dimension) pairs whose total or count differs
ChangedDimensions(before, after) ==
    {qd \in QuestionTypes \X (DOMAIN before.totals["trait"]
                               \cup UNION {DOMAIN before.totals[q]
                                              \cup DOMAIN after.totals[q]
                                              \cup DOMAIN before.counts[q]
                                              \cup DOMAIN after.counts[q] :
                                           q \in QuestionTypes}) :
        \/ (qd[2] \in DOMAIN before.totals[qd[1]])
               # (qd[2] \in DOMAIN after.totals[qd[1]])
        \/ (qd[2] \in DOMAIN before.counts[qd[1]])
               # (qd[2] \in DOMAIN after.counts[qd[1]])
        \/ /\ qd[2] \in DOMAIN before.totals[qd[1]]
           /\ qd[2] \in DOMAIN after.totals[qd[1]]
           /\ before.totals[qd[1]][qd[2]] # after.totals[qd[1]][qd[2]]
        \/ /\ qd[2] \in DOMAIN before.counts[qd[1]]
           /\ qd[2] \in DOMAIN after.counts[qd[1]]
           /\ before.counts[qd[1]][qd[2]] # after.counts[qd[1]][qd[2]]}

TotalOf(self, q, d) ==
    IF d \in DOMAIN self.totals[q] THEN self.totals[q][d] ELSE Zero

CountOf(self, q, d) ==
    IF d \in DOMAIN self.counts[q] THEN self.counts[q][d] ELSE 0

SameComponentScores(before, after) ==
    \A component \in SeqToSet(ComponentNames) :
        after[component] = before[component]

\* a rejected answer raises and leaves totals, counts and counter as they were
RejectedLeavesNoTrace(before, after, result) ==
    /\ result = Raise("ValueError")
    /\ after.totals = before.totals
    /\ after.counts = before.counts
    /\ after.total_answers = before.total_answers
    /\ SameComponentScores(before, after)

\* a valid answer adds its value to the one total and one to the one count
AcceptedCountsOnce(before, after, result, answer) ==
    /\ result.ok
    /\ ChangedDimensions(before, after)
           = {<<answer.question_type, answer.target>>}
    /\ TotalOf(after, answer.question_type, answer.target)
           = RAdd(TotalOf(before, answer.question_type, answer.target),
                  answer.answer.v)
    /\ RLt(TotalOf(before, answer.question_type, answer.target),
           TotalOf(after, answer.question_type, answer.target))
    /\ CountOf(after, answer.question_type, answer.target)
           = CountOf(before, answer.question_type, answer.target) + 1
    /\ after.total_answers = before.total_answers + 1
    /\ SameComponentScores(before, after)

\* C30: add_answer is all-or-nothing: an answer with a missing key, an unknown
\* question type, a non-numeric value or a target outside the component's
\* dimensions raises and changes no total, count or the answer counter; a
\* valid answer raises one dimension's total by its value, its count and the
\* answer counter by one, and changes no component score.
C30_AddAnswerIsAllOrNothing ==
    [][(call'.op = "add_answer") =>
          IF Rejected(user_profile, call'.answer)
          THEN RejectedLeavesNoTrace(user_profile, user_profile', ret')
          ELSE AcceptedCountsOnce(user_profile, user_profile', ret',
                                  call'.answer)]_vars

\* an answer was rejected after another had been counted
C30_Witness ==
    /\ call.op = "add_answer"
    /\ ~ret.ok
    /\ user_profile.total_answers = 1
    /\ \E q \in QuestionTypes : DOMAIN user_profile.totals[q] # {}

====
